---- MODULE Spec2Model ----
(***************************************************************************)
(* Model of the LGBTQ+ news collector (newsapi250720_flask01.py, with the  *)
(* earlier newsapi250718.py where the two differ): the syndication loop,   *)
(* the keyword-search loop, deduplication and keyword filtering.           *)
(*                                                                         *)
(* Text is a sequence of one-character strings, so that concatenation,     *)
(* lower-casing and substring search are computed as the code computes     *)
(* them.  Time is counted in whole hours.                                  *)
(***************************************************************************)
EXTENDS Integers, Sequences, FiniteSets, TLC

VARIABLES
    version,            \* which source file's collector runs: "250720" or "250718"
    pc,                 \* position of the collect call
    hours_back,         \* argument of the call
    exclude_keywords,   \* argument of the call
    now,                \* the wall clock, in hours
    cutoff_time,        \* local of collect_from_rss*: now - hours_back at entry
    idx,                \* position in rss_feeds.items()
    feed,               \* local: what the last fetch returned
    articles,           \* local of collect_from_rss*: records so far
    failed_feeds,       \* local of collect_from_rss_with_resilience
    successful_feeds,   \* local of collect_from_rss_with_resilience
    kwIdx,              \* position in lgbtq_keywords[:5]
    queried,            \* keywords for which a query was issued, in order
    news_articles,      \* local of collect_from_newsapi: records so far
    all_articles,       \* local of collect_all_sources: the merged list
    unique_articles,    \* local of collect_all_sources: after deduplication
    filtered_articles,  \* local of collect_all_sources: after filtering
    outcome,            \* how the call ended: "running", "returned", "raised"
    received,           \* entries the feeds have delivered to this call so far
    server_zone,        \* time.tzname of the host, which dateutil consults
    deduped_again,      \* result of _deduplicate_articles applied to its own result
    feed_health,        \* local of validate_feed_health: source name to verdict
    route_response,     \* what an admin route answered, NoResponse before
    item,               \* the feed entry in hand
    page_requested,     \* whether the entry's article page was requested for a thumbnail
    feed_name,          \* argument of admin_test_single_feed
    test_fetches,       \* sources admin_test_single_feed has fetched
    api_answer,         \* what the keyword-search API answered to the last query
    parsed_date,        \* what the last call of _parse_date gave
    stamp,              \* the timestamp handed to normalize_datetime
    normalized,         \* what normalize_datetime returned for it
    shared,             \* the attributes of the one collector all request threads use
    collect_calls,      \* the locals of each thread's collect_all_sources call
    health_run          \* the locals of the thread running validate_feed_health

vars == <<version, pc, hours_back, exclude_keywords, now, cutoff_time, idx, feed,
          articles, failed_feeds, successful_feeds, kwIdx, queried, news_articles,
          all_articles, unique_articles, filtered_articles, outcome,
          received, server_zone, deduped_again, feed_health, route_response, item,
          page_requested, feed_name, test_fetches, api_answer, parsed_date, stamp,
          normalized, shared, collect_calls, health_run>>

----------------------------------------------------------------------------
(* Bounds of the model *)

\* entries one call may receive from all syndication feeds together
MaxEntries == 3
\* largest hours_back argument tried
MaxHoursBack == 2
\* hours the clock may advance during one call
MaxTicks == 1
\* longest record list handed to the deduplicator and the filter directly
MaxLen == 4

\* the hour at which the call starts
Now0 == 100
\* largest UTC offset, and distance from Now0, of the timestamps normalised
MaxOffset == 5
\* entries and articles one of two concurrent calls may receive
MaxShared == 1

----------------------------------------------------------------------------
(* Text *)

\* Python's None, and a missing attribute or key, as values comparable with text
NoneVal == <<"<None>">>
Missing == <<"<missing>">>

Uppers == <<"A","B","C","D","E","F","G","H","I","J","K","L","M",
            "N","O","P","Q","R","S","T","U","V","W","X","Y","Z">>
Lowers == <<"a","b","c","d","e","f","g","h","i","j","k","l","m",
            "n","o","p","q","r","s","t","u","v","w","x","y","z">>

\* the lower-case letter of every upper-case letter
LowerOf ==
    [c \in {Uppers[i] : i \in 1..26} |-> Lowers[CHOOSE i \in 1..26 : Uppers[i] = c]]

LowerChar(c) == IF c \in DOMAIN LowerOf THEN LowerOf[c] ELSE c

\* str.lower()
Lower(s) == [i \in 1..Len(s) |-> LowerChar(s[i])]

\* the operator `k in t` on strings
IsSubstr(k, t) ==
    \E i \in 0..(Len(t) - Len(k)) : SubSeq(t, i + 1, i + Len(k)) = k

\* how an f-string renders a value: None becomes the text "None"
Str(v) == IF v = NoneVal THEN <<"N","o","n","e">> ELSE v

\* truth value of an optional string
Falsy(s) == s = NoneVal \/ s = <<>>

----------------------------------------------------------------------------
(* Timestamps: wall-clock hours, with a UTC offset when timezone-aware *)

Aware(w, o) == [wall |-> w, aware |-> TRUE, off |-> o]
Naive(w) == [wall |-> w, aware |-> FALSE, off |-> 0]

\* the instant an aware timestamp denotes
Instant(dt) == dt.wall - dt.off

\* normalize_datetime that relabels an aware timestamp as UTC without shifting it
NormalizeRelabels(dt) == Aware(dt.wall, 0)

normalize_datetime(dt) ==
    IF ~dt.aware
    THEN Aware(dt.wall, 0)
    ELSE Aware(dt.wall - dt.off, 0)

\* `a < b` on two aware timestamps
Before(a, b) == Instant(a) < Instant(b)

----------------------------------------------------------------------------
(* Text of the catalogues *)

T_Gay == <<"G","a","y">>
T_Pride == <<"P","r","i","d","e">>
T_Hate == <<"h","a","t","e">>
W_murder == <<"m","u","r","d","e","r">>
W_Murder == <<"M","u","r","d","e","r">>
W_crime == <<"c","r","i","m","e">>
W_ok == <<"o","k">>
U1 == <<"u","1">>
U2 == <<"u","2">>
U3 == <<"u","3">>
Img1 == <<"i","1">>
Img2 == <<"i","2">>
Img3 == <<"i","3">>

----------------------------------------------------------------------------
(* Article and its fingerprint *)

\* hashlib.md5(...).hexdigest(), taken as collision-free on its input
MD5(s) == <<"md5:">> \o s

\* Article.__post_init__ of newsapi250720_flask01.py
Article(title, content, url, published_date, source, thumbnail_url) ==
    [title |-> title, content |-> content, url |-> url,
     published_date |-> published_date, source |-> source,
     thumbnail_url |-> thumbnail_url,
     hash_id |-> MD5(Str(title) \o Str(url))]

\* Article.__post_init__ of newsapi250718.py: a naive date is made UTC first
LegacyArticle(title, content, url, published_date, source, thumbnail_url) ==
    [title |-> title, content |-> content, url |-> url,
     published_date |-> IF ~published_date.aware
                        THEN Aware(published_date.wall, 0)
                        ELSE published_date,
     source |-> source,
     thumbnail_url |-> thumbnail_url,
     hash_id |-> MD5(Str(title) \o Str(url))]

----------------------------------------------------------------------------
(* Syndication entries *)

\* fields of a feedparser entry that the collector reads
AbsentStruct == [k |-> "absent", wall |-> 0]
AbsentText == [k |-> "absent", wall |-> 0, zone |-> ""]
AbsentField == [k |-> "absent", v |-> <<>>]
AbsentMedia == [k |-> "absent", url |-> NoneVal]

BlankEntry ==
    [title |-> Missing, link |-> Missing,
     published_parsed |-> AbsentStruct, updated_parsed |-> AbsentStruct,
     published |-> AbsentText, updated |-> AbsentText,
     content |-> AbsentField, summary |-> AbsentField, description |-> AbsentField,
     media_thumbnail |-> AbsentMedia, media_content |-> <<>>, enclosures |-> <<>>,
     page |-> [k |-> "raises", img |-> NoneVal]]

\* the tzinfos table of _parse_date
TzInfos(zone) ==
    CASE zone = "EDT" -> -4
      [] zone = "EST" -> -5
      [] zone = "PDT" -> -7
      [] zone = "PST" -> -8
      [] zone = "CDT" -> -5
      [] zone = "CST" -> -6
      [] zone = "MDT" -> -6
      [] zone = "MST" -> -7

TzNames == {"EDT", "EST", "PDT", "PST", "CDT", "CST", "MDT", "MST"}

\* dateutil's parser.parse(text, tzinfos=tzinfos) on a well-formed date text:
\* a name of the table gets its offset, UTC is recognised, any other name or no
\* name gives a naive timestamp
DateutilParse(t) ==
    IF t.zone \in TzNames THEN Aware(t.wall, TzInfos(t.zone))
    ELSE IF t.zone = "UTC" THEN Aware(t.wall, 0)
    ELSE Naive(t.wall)

NoDate == [wall |-> 0, aware |-> FALSE, off |-> 0, none |-> TRUE]
SomeDate(dt) == [wall |-> dt.wall, aware |-> dt.aware, off |-> dt.off, none |-> FALSE]

\* one textual date field: the parsed date, made UTC when naive, or NoDate when
\* the field is absent or parser.parse raises
ParseText(t) ==
    IF t.k = "ok"
    THEN LET dt == DateutilParse(t)
         IN SomeDate(IF ~dt.aware THEN Aware(dt.wall, 0) ELSE dt)
    ELSE NoDate

\* one structured date field: present, truthy and a valid calendar tuple
ParseStruct(f) == IF f.k = "ok" THEN SomeDate(Aware(f.wall, 0)) ELSE NoDate

\* _parse_date of newsapi250720_flask01.py
ParseDate(entry) ==
    IF ~ParseStruct(entry.published_parsed).none THEN ParseStruct(entry.published_parsed)
    ELSE IF ~ParseStruct(entry.updated_parsed).none THEN ParseStruct(entry.updated_parsed)
    ELSE IF ~ParseText(entry.published).none THEN ParseText(entry.published)
    ELSE ParseText(entry.updated)

DateOf(d) == [wall |-> d.wall, aware |-> d.aware, off |-> d.off]

\* the value of parsed_date while _parse_date has not been called
NotParsed == [raised |-> FALSE, date |-> NoDate]

----------------------------------------------------------------------------
(* Content extraction and cleaning *)

\* markup tokens of the catalogues; an image tag carries the URL of its src
ImgTags == {"<img src=i2>", "<img src=data:>", "<img src=pixel>"}
TagTokens == {"<p>", "</p>", "<b>", "</b>", "<script>", "</script>",
              "<style>", "</style>"} \cup ImgTags

RECURSIVE DropScripts(_, _)
\* script.decompose() for script and style elements, then soup.get_text():
\* the text outside tags and outside script/style elements
DropScripts(s, inside) ==
    IF s = <<>> THEN <<>>
    ELSE LET h == Head(s)
             t == Tail(s)
         IN IF inside
            THEN DropScripts(t, ~(h \in {"</script>", "</style>"}))
            ELSE IF h \in {"<script>", "<style>"} THEN DropScripts(t, TRUE)
            ELSE IF h \in TagTokens THEN DropScripts(t, FALSE)
            ELSE <<h>> \o DropScripts(t, FALSE)

RECURSIVE Strip(_)
\* str.strip() on one line
Strip(s) ==
    IF s = <<>> THEN <<>>
    ELSE IF Head(s) = " " THEN Strip(Tail(s))
    ELSE IF s[Len(s)] = " " THEN Strip(SubSeq(s, 1, Len(s) - 1))
    ELSE s

RECURSIVE SplitOn(_, _)
\* str.split(sep) for a separator of one or two characters, and splitlines()
SplitOn(s, sep) ==
    LET n == Len(sep)
        hits == {i \in 1..(Len(s) - n + 1) : SubSeq(s, i, i + n - 1) = sep}
    IN IF hits = {} THEN <<s>>
       ELSE LET i == CHOOSE j \in hits : \A k \in hits : j <= k
            IN <<SubSeq(s, 1, i - 1)>> \o SplitOn(SubSeq(s, i + n, Len(s)), sep)

RECURSIVE Chunks(_)
\* the stripped phrases of the stripped lines, empty ones dropped
Chunks(lines) ==
    IF lines = <<>> THEN <<>>
    ELSE LET phrases == SplitOn(Strip(Head(lines)), <<" ", " ">>)
             stripped == [i \in 1..Len(phrases) |-> Strip(phrases[i])]
         IN SelectSeq(stripped, LAMBDA c : c # <<>>) \o Chunks(Tail(lines))

RECURSIVE JoinSpace(_)
\* ' '.join(chunks)
JoinSpace(chunks) ==
    IF chunks = <<>> THEN <<>>
    ELSE IF Len(chunks) = 1 THEN chunks[1]
    ELSE chunks[1] \o <<" ">> \o JoinSpace(Tail(chunks))

_clean_html_content(html_content) ==
    IF html_content = <<>> THEN <<>>
    ELSE JoinSpace(Chunks(SplitOn(DropScripts(html_content, FALSE), <<"\n">>)))

\* what one candidate field of _extract_content and _get_raw_content yields:
\* the first element's value of a non-empty list, or the string itself
FieldUsable(f) == f.k \in {"list", "str"}

\* _extract_content of newsapi250720_flask01.py
_extract_content(entry) ==
    IF FieldUsable(entry.content) THEN _clean_html_content(entry.content.v)
    ELSE IF FieldUsable(entry.summary) THEN _clean_html_content(entry.summary.v)
    ELSE IF FieldUsable(entry.description) THEN _clean_html_content(entry.description.v)
    ELSE <<>>

\* _get_raw_content: as _extract_content, without the cleaning
_get_raw_content(entry) ==
    IF FieldUsable(entry.content) THEN entry.content.v
    ELSE IF FieldUsable(entry.summary) THEN entry.summary.v
    ELSE IF FieldUsable(entry.description) THEN entry.description.v
    ELSE <<>>

----------------------------------------------------------------------------
(* Thumbnail resolution *)

ThumbOk(u) == [raised |-> FALSE, url |-> u]
ThumbRaised == [raised |-> TRUE, url |-> NoneVal]

\* the URL an image tag's src holds
ImgSrc(tag) ==
    CASE tag = "<img src=i2>" -> Img2
      [] tag = "<img src=data:>" -> <<"d","a","t","a",":">>
      [] tag = "<img src=pixel>" -> <<"p","i","x","e","l">>

\* url.startswith('data:') or 'pixel' in url.lower()
RejectedImg(u) ==
    \/ (Len(u) >= 5 /\ SubSeq(u, 1, 5) = <<"d","a","t","a",":">>)
    \/ IsSubstr(<<"p","i","x","e","l">>, Lower(u))

\* first media whose declared type is an image
FirstImage(medias) ==
    LET hits == {i \in 1..Len(medias) : medias[i].type = "image"}
    IN IF hits = {} THEN 0 ELSE CHOOSE i \in hits : \A j \in hits : i <= j

\* the pattern search over the raw content: the first image tag decides
RawImage(raw) ==
    LET hits == {i \in 1..Len(raw) : raw[i] \in ImgTags}
    IN IF hits = {} THEN NoneVal
       ELSE LET u == ImgSrc(raw[CHOOSE i \in hits : \A j \in hits : i <= j])
            IN IF RejectedImg(u) THEN NoneVal ELSE u

\* extract_thumbnail_from_rss.  (The first branch is an entry whose media_thumbnail
\* is no list of mappings, which feedparser does not deliver.)
extract_thumbnail_from_rss(entry) ==
    IF entry.media_thumbnail.k = "bad" THEN ThumbRaised
    ELSE IF entry.media_thumbnail.k = "ok" THEN ThumbOk(entry.media_thumbnail.url)
    ELSE IF FirstImage(entry.media_content) # 0
         THEN ThumbOk(entry.media_content[FirstImage(entry.media_content)].url)
    ELSE IF FirstImage(entry.enclosures) # 0
         THEN ThumbOk(entry.enclosures[FirstImage(entry.enclosures)].url)
    ELSE ThumbOk(RawImage(_get_raw_content(entry)))

\* extract_thumbnail_from_url: the page's image, or None when the request
\* raises, times out or answers with another status than 200
extract_thumbnail_from_url(page) ==
    IF page.k = "html" THEN page.img ELSE NoneVal

----------------------------------------------------------------------------
(* One entry of collect_from_rss_with_resilience *)

\* ProcessEntry with the cutoff applied to the date the record would carry, so
\* that an undated entry is compared too (with the start of the epoch)
ProcessEntryCutoffAll(entry, source_name, cutoff, clock) ==
    LET pub_date == ParseDate(entry)
        normalized_pub_date == normalize_datetime(DateOf(pub_date))
        rss_thumb == extract_thumbnail_from_rss(entry)
        thumbnail_url == IF Falsy(rss_thumb.url)
                         THEN extract_thumbnail_from_url(entry.page)
                         ELSE rss_thumb.url
        final_pub_date == IF ~pub_date.none THEN normalized_pub_date ELSE Aware(clock, 0)
    IN IF Before(normalized_pub_date, cutoff) THEN <<>>
       ELSE IF rss_thumb.raised THEN <<>>
       ELSE IF entry.link = Missing \/ entry.title = Missing THEN <<>>
       ELSE <<Article(entry.title, _extract_content(entry), entry.link,
                      final_pub_date, source_name, thumbnail_url)>>

\* ProcessEntry in which a failed request of the article page is an error of
\* the entry
ProcessEntryFetchRaises(entry, source_name, cutoff, clock) ==
    LET pub_date == ParseDate(entry)
        normalized_pub_date == normalize_datetime(DateOf(pub_date))
        rss_thumb == extract_thumbnail_from_rss(entry)
        thumbnail_url == IF Falsy(rss_thumb.url)
                         THEN extract_thumbnail_from_url(entry.page)
                         ELSE rss_thumb.url
        final_pub_date == IF ~pub_date.none THEN normalized_pub_date ELSE Aware(clock, 0)
    IN IF ~pub_date.none /\ Before(normalized_pub_date, cutoff) THEN <<>>
       ELSE IF rss_thumb.raised THEN <<>>
       ELSE IF Falsy(rss_thumb.url) /\ entry.page.k # "html" THEN <<>>
       ELSE IF entry.link = Missing \/ entry.title = Missing THEN <<>>
       ELSE <<Article(entry.title, _extract_content(entry), entry.link,
                      final_pub_date, source_name, thumbnail_url)>>

\* the body of the entry loop: the records it appends (none or one).  Every
\* exception raised in the body is caught by the entry's own try and skips it.
ProcessEntry(entry, source_name, cutoff, clock) ==
    LET pub_date == ParseDate(entry)
        normalized_pub_date == normalize_datetime(DateOf(pub_date))
        rss_thumb == extract_thumbnail_from_rss(entry)
        thumbnail_url == IF Falsy(rss_thumb.url)
                         THEN extract_thumbnail_from_url(entry.page)
                         ELSE rss_thumb.url
        final_pub_date == IF ~pub_date.none THEN normalized_pub_date ELSE Aware(clock, 0)
    IN IF ~pub_date.none /\ Before(normalized_pub_date, cutoff) THEN <<>>
       ELSE IF rss_thumb.raised THEN <<>>
       ELSE IF entry.link = Missing \/ entry.title = Missing THEN <<>>
       ELSE <<Article(entry.title, _extract_content(entry), entry.link,
                      final_pub_date, source_name, thumbnail_url)>>

RECURSIVE ProcessEntries(_, _, _, _)
\* the entry loop over feed.entries
ProcessEntries(entries, source_name, cutoff, clock) ==
    IF entries = <<>> THEN <<>>
    ELSE ProcessEntry(Head(entries), source_name, cutoff, clock)
         \o ProcessEntries(Tail(entries), source_name, cutoff, clock)

----------------------------------------------------------------------------
(* Sources and what a fetch returns *)

\* rss_feeds, in insertion order: the first three sources, one of each kind the
\* fetcher distinguishes
rss_feeds == <<"advocate", "pinknews", "google_lgbtq_atlanta">>

Kind(source_name) ==
    CASE source_name = "advocate" -> "advocate"
      [] source_name = "pinknews" -> "standard"
      [] source_name = "google_lgbtq_atlanta" -> "google"

\* str(feed.bozo_exception) for the errors feedparser reports: the XML parser's
\* fatal errors (expat's messages behind a line:column prefix) and the
\* encoding override, which is a notice
X_Position == <<"2",":","0",":"," ">>
W_syntax_error == <<"s","y","n","t","a","x"," ","e","r","r","o","r">>
X_SyntaxError == X_Position \o W_syntax_error
X_MismatchedTag == X_Position \o <<"m","i","s","m","a","t","c","h","e","d"," ","t","a","g">>
X_EncodingOverride == <<"u","s","-","a","s","c","i","i"," ","a","s"," ","u","t","f","-","8">>
X_None == <<>>

\* feedparser.FeedParserDict(): no entries attribute at all
EmptyDict == [has_entries |-> FALSE, entries |-> <<>>, bozo |-> FALSE,
              bozo_exception |-> X_None]
\* a parse result with a bozo flag set for the reason given
BozoFeed(es, x) == [has_entries |-> TRUE, entries |-> es, bozo |-> TRUE,
                    bozo_exception |-> x]
Feed(es, b) ==
    IF b THEN BozoFeed(es, X_SyntaxError)
    ELSE [has_entries |-> TRUE, entries |-> es, bozo |-> FALSE, bozo_exception |-> X_None]

\* _handle_google_news_feed
_handle_google_news_feed(up) ==
    IF up.http = "error" THEN EmptyDict
    ELSE IF up.parsed.entries = <<>> /\ up.parsed.bozo
         THEN IF up.fallback.entries # <<>> THEN up.fallback ELSE EmptyDict
    ELSE up.parsed

\* _fetch_and_fix_feed: `up` is what the upstream answers (the HTTP outcome, the
\* parsed feed, and the parse of the original URL used as a fallback)
_fetch_and_fix_feed(source_name, up) ==
    IF Kind(source_name) = "google" THEN _handle_google_news_feed(up)
    ELSE IF up.http = "error" THEN EmptyDict
    ELSE up.parsed

----------------------------------------------------------------------------
(* Configuration set by __init__ *)

lgbtq_keywords ==
    <<"LGBTQ",
      "LGBT",
      "gay",
      "lesbian",
      "transgender",
      "bisexual",
      "queer",
      "pride",
      "rainbow",
      "homosexual",
      "same-sex",
      "gender identity",
      "sexual orientation",
      "marriage equality",
      "trans rights",
      "gay rights",
      "GLAAD",
      "Pride Month">>

default_excluded_keywords ==
    <<<<"d","e","a","t","h">>,
      <<"d","i","e","d">>,
      <<"s","u","i","c","i","d","e">>,
      <<"m","u","r","d","e","r">>,
      <<"k","i","l","l","e","d">>,
      <<"v","i","o","l","e","n","c","e">>,
      <<"a","t","t","a","c","k">>,
      <<"a","s","s","a","u","l","t">>,
      <<"h","a","r","a","s","s","m","e","n","t">>,
      <<"a","b","u","s","e">>,
      <<"h","a","t","e"," ","c","r","i","m","e">>>>

\* the exclude_keywords argument: absent (None) or a list of terms
NoExclude == [given |-> FALSE, kws |-> <<>>]
Exclude(kws) == [given |-> TRUE, kws |-> kws]

----------------------------------------------------------------------------
(* What the upstreams may answer *)

E_Struct ==
    [BlankEntry EXCEPT !.title = T_Gay, !.link = U1,
                       !.published_parsed = [k |-> "ok", wall |-> Now0 - 1],
                       !.summary = [k |-> "str", v |-> <<"<p>">> \o W_ok \o <<"</p>">>],
                       !.media_thumbnail = [k |-> "ok", url |-> Img1]]
E_Text ==
    [BlankEntry EXCEPT !.title = T_Pride, !.link = U2,
                       !.published_parsed = [k |-> "none", wall |-> 0],
                       !.published = [k |-> "ok", wall |-> Now0 - 6, zone |-> "EDT"],
                       !.content = [k |-> "list", v |-> W_ok \o <<" ", " ">> \o W_Murder],
                       !.page = [k |-> "html", img |-> Img3]]
E_Undated ==
    [BlankEntry EXCEPT !.title = T_Hate, !.link = U3,
                       !.published = [k |-> "garbage", wall |-> 0, zone |-> ""],
                       !.description = [k |-> "str", v |-> W_crime]]
E_NoLink ==
    [BlankEntry EXCEPT !.title = T_Gay,
                       !.published_parsed = [k |-> "ok", wall |-> Now0]]

EntryCatalog == {E_Struct, E_Text, E_Undated, E_NoLink}

\* the entry lists of one to n entries
EntryLists(n) == UNION {[1..k -> EntryCatalog] : k \in 1..n}

BozoEmpty == Feed(<<>>, TRUE)

\* the answers of the upstream of one source that deliver at most n entries
Upstreams(source_name, n) ==
    {[http |-> "error", parsed |-> BozoEmpty, fallback |-> BozoEmpty]}
    \cup {[http |-> "ok", parsed |-> Feed(<<>>, b), fallback |-> BozoEmpty] : b \in BOOLEAN}
    \cup {[http |-> "ok", parsed |-> Feed(es, FALSE), fallback |-> BozoEmpty] :
             es \in EntryLists(n)}
    \cup {[http |-> "ok", parsed |-> BozoEmpty, fallback |-> Feed(<<e>>, FALSE)] :
             e \in IF Kind(source_name) = "google" /\ n >= 1 THEN EntryCatalog ELSE {}}

HoursBackChoices == (-1)..MaxHoursBack

\* the value of route_response while no admin route has answered
NoResponse == [status |-> 0]

\* the value of api_answer while no keyword query has been answered
NoAnswer == [k |-> "none", items |-> <<>>]

\* the User-Agent header __init__ sets on the session, line 37-39
UserAgent == "LGBTQ-News-Agent/1.0"

\* the state of the module-level collector once __init__ has run: the
\* attributes every request handler reads
Constructed ==
    [rss_feeds |-> rss_feeds,
     lgbtq_keywords |-> lgbtq_keywords,
     default_excluded_keywords |-> default_excluded_keywords,
     headers |-> UserAgent]

\* the two request threads that may run collect_all_sources at once
Callers == {1, 2}

\* the locals of a collect_all_sources call that has not started
IdleCall ==
    [pc |-> "idle", exclude |-> NoExclude, idx |-> 1, kwIdx |-> 1, received |-> 0,
     feeds |-> <<>>, answers |-> <<>>, articles |-> <<>>, news_articles |-> <<>>,
     result |-> <<>>, outcome |-> "running"]

\* the locals of a validate_feed_health call that has not started
IdleRun == [pc |-> "idle", idx |-> 1, health |-> [n \in {} |-> FALSE]]

----------------------------------------------------------------------------
(* collect_from_rss_with_resilience, one source per step *)

Init ==
    /\ version = "250720"
    /\ pc = "idle"
    /\ hours_back = 0
    /\ exclude_keywords = NoExclude
    /\ now = Now0
    /\ cutoff_time = Aware(Now0, 0)
    /\ idx = 1
    /\ feed = EmptyDict
    /\ articles = <<>>
    /\ failed_feeds = <<>>
    /\ successful_feeds = <<>>
    /\ kwIdx = 1
    /\ queried = <<>>
    /\ news_articles = <<>>
    /\ all_articles = <<>>
    /\ unique_articles = <<>>
    /\ filtered_articles = <<>>
    /\ outcome = "running"
    /\ received = 0
    /\ server_zone = "UTC"
    /\ deduped_again = <<>>
    /\ feed_health = [n \in {} |-> FALSE]
    /\ route_response = NoResponse
    /\ item = BlankEntry
    /\ page_requested = FALSE
    /\ feed_name = "-"
    /\ test_fetches = <<>>
    /\ api_answer = NoAnswer
    /\ parsed_date = NotParsed
    /\ stamp = Naive(0)
    /\ normalized = Aware(0, 0)
    /\ shared = Constructed
    /\ collect_calls = [c \in Callers |-> IdleCall]
    /\ health_run = IdleRun

\* a direct call of collect_from_rss_with_resilience(hours_back), or of
\* collect_from_rss(hours_back) of newsapi250718.py
CallCollectFromRss ==
    /\ pc = "idle"
    /\ \E v \in {"250720", "250718"}, hb \in HoursBackChoices, z \in {"UTC", "EDT"} :
          /\ version' = v
          /\ hours_back' = hb
          /\ cutoff_time' = Aware(now - hb, 0)
          /\ server_zone' = IF v = "250718" THEN z ELSE "UTC"
    /\ pc' = "rss"
    /\ UNCHANGED <<exclude_keywords, now, idx, feed, articles, failed_feeds,
                   successful_feeds, kwIdx, queried, news_articles, all_articles,
                   unique_articles, filtered_articles, outcome, received,
                   deduped_again, feed_health, route_response, item, page_requested,
                   feed_name, test_fetches, api_answer, parsed_date, stamp, normalized,
                   shared, collect_calls, health_run>>

\* RssIteration with `break` where the code has `continue`: a source without
\* entries ends the loop
RssIterationBreak(source_name, up, clock) ==
    LET f == _fetch_and_fix_feed(source_name, up)
        new == ProcessEntries(f.entries, source_name, cutoff_time, clock)
    IN /\ feed' = f
       /\ received' = received + Len(f.entries)
       /\ IF ~f.has_entries \/ f.entries = <<>>
          THEN /\ failed_feeds' = Append(failed_feeds, source_name)
               /\ idx' = Len(rss_feeds) + 1
               /\ UNCHANGED <<articles, successful_feeds>>
          ELSE /\ articles' = articles \o new
               /\ successful_feeds' =
                     IF Len(new) > 0
                     THEN Append(successful_feeds, <<source_name, Len(new)>>)
                     ELSE successful_feeds
               /\ idx' = idx + 1
               /\ UNCHANGED failed_feeds

\* RssIteration that does not note a source without entries in failed_feeds
RssIterationSilent(source_name, up, clock) ==
    LET f == _fetch_and_fix_feed(source_name, up)
        new == ProcessEntries(f.entries, source_name, cutoff_time, clock)
    IN /\ feed' = f
       /\ received' = received + Len(f.entries)
       /\ IF ~f.has_entries \/ f.entries = <<>>
          THEN UNCHANGED <<articles, successful_feeds, failed_feeds>>
          ELSE /\ articles' = articles \o new
               /\ successful_feeds' =
                     IF Len(new) > 0
                     THEN Append(successful_feeds, <<source_name, Len(new)>>)
                     ELSE successful_feeds
               /\ UNCHANGED failed_feeds
       /\ idx' = idx + 1

\* the body of the source loop, lines 351-406
RssIteration(source_name, up, clock) ==
    LET f == _fetch_and_fix_feed(source_name, up)
        new == ProcessEntries(f.entries, source_name, cutoff_time, clock)
    IN /\ feed' = f
       /\ received' = received + Len(f.entries)
       /\ IF ~f.has_entries \/ f.entries = <<>>
          THEN /\ failed_feeds' = Append(failed_feeds, source_name)
               /\ UNCHANGED <<articles, successful_feeds>>
          ELSE /\ articles' = articles \o new
               /\ successful_feeds' =
                     IF Len(new) > 0
                     THEN Append(successful_feeds, <<source_name, Len(new)>>)
                     ELSE successful_feeds
               /\ UNCHANGED failed_feeds
       /\ idx' = idx + 1

RssStep ==
    /\ pc = "rss"
    /\ version = "250720"
    /\ idx <= Len(rss_feeds)
    /\ \E t \in 0..1 :
          /\ now + t <= Now0 + MaxTicks
          /\ now' = now + t
          /\ \E up \in Upstreams(rss_feeds[idx], MaxEntries - received) :
                RssIteration(rss_feeds[idx], up, now + t)
    /\ UNCHANGED <<version, pc, hours_back, exclude_keywords, cutoff_time, kwIdx,
                   queried, news_articles, all_articles, unique_articles,
                   filtered_articles, outcome, server_zone, deduped_again, feed_health,
                   route_response, item, page_requested, feed_name, test_fetches,
                   api_answer, parsed_date, stamp, normalized, shared, collect_calls,
                   health_run>>

\* the loop is exhausted: the summary is logged and the list returned (and, in
\* collect_all_sources, appended to all_articles); the locals of the call are gone
RssReturn ==
    /\ pc = "rss"
    /\ idx > Len(rss_feeds)
    /\ pc' = "api"
    /\ all_articles' = all_articles \o articles
    /\ articles' = <<>>
    /\ feed' = EmptyDict
    /\ failed_feeds' = <<>>
    /\ successful_feeds' = <<>>
    /\ idx' = 1
    /\ UNCHANGED <<version, hours_back, exclude_keywords, now, cutoff_time, kwIdx,
                   queried, news_articles, unique_articles, filtered_articles, outcome,
                   received, server_zone, deduped_again, feed_health, route_response,
                   item, page_requested, feed_name, test_fetches, api_answer,
                   parsed_date, stamp, normalized, shared, collect_calls, health_run>>

----------------------------------------------------------------------------
(* collect_from_rss of newsapi250718.py, one source per step *)

\* parser.parse(text) without a tzinfos table: a zone name is honoured only when
\* it is UTC or the host's own zone name
LegacyDateutilParse(t, zone) ==
    IF t.zone = "UTC" THEN Aware(t.wall, 0)
    ELSE IF t.zone \in TzNames /\ t.zone = zone THEN Aware(t.wall, TzInfos(t.zone))
    ELSE Naive(t.wall)

LegacyParseText(t, zone) ==
    IF t.k = "ok"
    THEN LET dt == LegacyDateutilParse(t, zone)
         IN SomeDate(IF ~dt.aware THEN Aware(dt.wall, 0) ELSE dt)
    ELSE NoDate

\* _parse_date of newsapi250718.py: the structured fields are converted outside
\* any try, so an invalid calendar tuple raises
LegacyParseDate(entry, zone) ==
    IF entry.published_parsed.k \in {"ok", "bad"}
    THEN [raised |-> entry.published_parsed.k = "bad",
          date |-> ParseStruct(entry.published_parsed)]
    ELSE IF entry.updated_parsed.k \in {"ok", "bad"}
    THEN [raised |-> entry.updated_parsed.k = "bad",
          date |-> ParseStruct(entry.updated_parsed)]
    ELSE IF ~LegacyParseText(entry.published, zone).none
    THEN [raised |-> FALSE, date |-> LegacyParseText(entry.published, zone)]
    ELSE [raised |-> FALSE, date |-> LegacyParseText(entry.updated, zone)]

\* the inline <img> search of newsapi250718.py: the first image tag's src
LegacyRawImage(raw) ==
    LET hits == {i \in 1..Len(raw) : raw[i] \in ImgTags}
    IN IF hits = {} THEN NoneVal
       ELSE ImgSrc(raw[CHOOSE i \in hits : \A j \in hits : i <= j])

\* extract_thumbnail_from_rss of newsapi250718.py
LegacyThumbnailFromRss(entry) ==
    IF entry.media_thumbnail.k = "bad" THEN ThumbRaised
    ELSE IF entry.media_thumbnail.k = "ok" THEN ThumbOk(entry.media_thumbnail.url)
    ELSE IF FirstImage(entry.media_content) # 0
         THEN ThumbOk(entry.media_content[FirstImage(entry.media_content)].url)
    ELSE IF FirstImage(entry.enclosures) # 0
         THEN ThumbOk(entry.enclosures[FirstImage(entry.enclosures)].url)
    ELSE ThumbOk(LegacyRawImage(_get_raw_content(entry)))

Skipped == [raised |-> FALSE, arts |-> <<>>]
Raised == [raised |-> TRUE, arts |-> <<>>]

\* the body of the entry loop of collect_from_rss, lines 131-147: only the
\* construction of the Article is inside a try
LegacyProcessEntry(entry, src, cutoff, clock, zone) ==
    LET parsed == LegacyParseDate(entry, zone)
        pub == IF parsed.date.none THEN Aware(clock, 0) ELSE DateOf(parsed.date)
        rss_thumb == LegacyThumbnailFromRss(entry)
        thumb == IF Falsy(rss_thumb.url)
                 THEN extract_thumbnail_from_url(entry.page)
                 ELSE rss_thumb.url
    IN IF parsed.raised THEN Raised
       ELSE IF Before(pub, cutoff) THEN Skipped
       ELSE IF rss_thumb.raised THEN Raised
       ELSE IF Falsy(rss_thumb.url) /\ entry.link = Missing THEN Raised
       ELSE IF entry.title = Missing \/ entry.link = Missing THEN Skipped
       ELSE [raised |-> FALSE,
             arts |-> <<LegacyArticle(entry.title, _get_raw_content(entry), entry.link,
                                      pub, src, thumb)>>]

RECURSIVE LegacyProcessEntries(_, _, _, _, _)
\* the entry loop: an exception ends it, and the call
LegacyProcessEntries(entries, src, cutoff, clock, zone) ==
    IF entries = <<>> THEN Skipped
    ELSE LET first == LegacyProcessEntry(Head(entries), src, cutoff, clock, zone)
             rest == LegacyProcessEntries(Tail(entries), src, cutoff, clock, zone)
         IN IF first.raised THEN first
            ELSE [raised |-> rest.raised, arts |-> first.arts \o rest.arts]

LegacyRssStep ==
    /\ pc = "rss"
    /\ version = "250718"
    /\ idx <= Len(rss_feeds)
    /\ \E t \in 0..1 :
          /\ now + t <= Now0 + MaxTicks
          /\ now' = now + t
          /\ \E up \in Upstreams(rss_feeds[idx], MaxEntries - received) :
                LET f == IF up.http = "error" THEN BozoEmpty ELSE up.parsed
                    got == LegacyProcessEntries(f.entries, rss_feeds[idx], cutoff_time,
                                                now + t, server_zone)
                IN /\ feed' = f
                   /\ received' = received + Len(f.entries)
                   /\ articles' = articles \o got.arts
                   /\ idx' = idx + 1
                   /\ pc' = IF got.raised THEN "done" ELSE pc
                   /\ outcome' = IF got.raised THEN "raised" ELSE outcome
    /\ UNCHANGED <<version, hours_back, exclude_keywords, cutoff_time, failed_feeds,
                   successful_feeds, kwIdx, queried, news_articles, all_articles,
                   unique_articles, filtered_articles, server_zone, deduped_again,
                   feed_health, route_response, item, page_requested, feed_name,
                   test_fetches, api_answer, parsed_date, stamp, normalized, shared,
                   collect_calls, health_run>>

NextRss == CallCollectFromRss \/ RssStep \/ LegacyRssStep \/ RssReturn

SpecRss == Init /\ [][NextRss]_vars

----------------------------------------------------------------------------
(* Properties of the syndication loop *)

\* the records the last step appended
Appended(before, after) == SubSeq(after, Len(before) + 1, Len(after))

\* a fetch that failed or delivered nothing
NoEntries(f) == ~f.has_entries \/ f.entries = <<>>

\* C1: in collect_from_rss_with_resilience every step of the source loop, whatever
\* the fetch returned, moves on to the next source and leaves the call running;
\* a failing or empty source appends nothing, and any other source appends
\* exactly the records of its own entries, after the untouched earlier records.
C1_SourceIsolation ==
    [][(pc = "rss" /\ version = "250720" /\ idx <= Len(rss_feeds)) =>
          /\ idx' = idx + 1
          /\ pc' = "rss"
          /\ outcome' = "running"
          /\ articles' = articles \o
                (IF NoEntries(feed') THEN <<>>
                 ELSE ProcessEntries(feed'.entries, rss_feeds[idx], cutoff_time, now'))
          /\ \A i \in 1..Len(Appended(articles, articles')) :
                Appended(articles, articles')[i].source = rss_feeds[idx]]_vars

\* C1 witness: the first source failed and a later source's records were collected
C1_Witness ==
    /\ version = "250720"
    /\ Len(failed_feeds) >= 1
    /\ failed_feeds[1] = "advocate"
    /\ \E i \in 1..Len(articles) : articles[i].source = "google_lgbtq_atlanta"
    /\ pc = "rss"
    /\ idx > Len(rss_feeds)

\* an entry a record can be built from, and the date the collector discovers
HasTitleAndLink(e) == e.title # Missing /\ e.link # Missing
DiscoveredDate(e) ==
    IF version = "250720" THEN ParseDate(e) ELSE LegacyParseDate(e, server_zone).date

\* the entries of a batch that the recency rule lets through: no discoverable
\* date, or a date not older than start - hours_back
PassCutoff(entries, hb) ==
    SelectSeq(entries,
              LAMBDA e : /\ HasTitleAndLink(e)
                         /\ \/ DiscoveredDate(e).none
                            \/ Instant(DateOf(DiscoveredDate(e))) >= Now0 - hb)

\* what C9 requires of the records appended for a batch
CutoffRespected(entries, new, hb, clock) ==
    LET kept == PassCutoff(entries, hb)
    IN /\ Len(new) = Len(kept)
       /\ \A i \in 1..Len(kept) :
             /\ new[i].title = kept[i].title
             /\ new[i].url = kept[i].link
             /\ IF DiscoveredDate(kept[i]).none
                THEN new[i].published_date = Aware(clock, 0)
                ELSE Instant(new[i].published_date) =
                        Instant(DateOf(DiscoveredDate(kept[i])))

\* C9: for hours_back >= 0, in both collectors, a batch that is processed to its
\* end yields a record for every usable entry without a discoverable date, stamped
\* with the current instant, and for a dated entry exactly when its date is not
\* older than now - hours_back.
C9_RecencyCutoff ==
    [][(pc = "rss" /\ idx <= Len(rss_feeds) /\ hours_back >= 0 /\ idx' = idx + 1
        /\ outcome' = "running") =>
          CutoffRespected(feed'.entries, Appended(articles, articles'),
                          hours_back, now')]_vars

\* C9 witness: with hours_back = 0 a batch holding a dated entry (an hour old) and
\* an undated one left only the undated one, stamped with the clock
C9_Witness ==
    /\ pc = "rss"
    /\ hours_back = 0
    /\ feed.entries = <<E_Struct, E_Undated>>
    /\ Len(articles) = 1
    /\ articles[1].title = T_Hate
    /\ articles[1].published_date = Aware(now, 0)

----------------------------------------------------------------------------
(* Deduplication and keyword filtering *)

RECURSIVE DedupToggle(_, _)
\* DedupFrom in which dropping a record also forgets its fingerprint
DedupToggle(arts, seen_hashes) ==
    IF arts = <<>> THEN <<>>
    ELSE IF Head(arts).hash_id \notin seen_hashes
         THEN <<Head(arts)>> \o DedupToggle(Tail(arts), seen_hashes \cup {Head(arts).hash_id})
         ELSE DedupToggle(Tail(arts), seen_hashes \ {Head(arts).hash_id})

RECURSIVE DedupFrom(_, _)
\* the loop of _deduplicate_articles, with seen_hashes as it stands
DedupFrom(arts, seen_hashes) ==
    IF arts = <<>> THEN <<>>
    ELSE IF Head(arts).hash_id \notin seen_hashes
         THEN <<Head(arts)>> \o DedupFrom(Tail(arts), seen_hashes \cup {Head(arts).hash_id})
         ELSE DedupFrom(Tail(arts), seen_hashes)

\* a deduplicator in which the last occurrence of a fingerprint wins
DedupKeepLast(arts) ==
    LET keep == {i \in 1..Len(arts) :
                    \A j \in (i + 1)..Len(arts) : arts[j].hash_id # arts[i].hash_id}
        F[i \in 0..Len(arts)] ==
            IF i = 0 THEN <<>>
            ELSE IF i \in keep THEN Append(F[i - 1], arts[i]) ELSE F[i - 1]
    IN F[Len(arts)]

_deduplicate_articles(arts) == DedupFrom(arts, {})

\* text_to_check without .lower(): a case-sensitive match
text_to_check_cased(article) ==
    Str(article.title) \o <<" ">> \o Str(article.content)

\* f"{article.title} {article.content}".lower()
text_to_check(article) ==
    Lower(Str(article.title) \o <<" ">> \o Str(article.content))

\* contains_excluded with all(...) where the code has any(...)
contains_all_excluded(article, kws) ==
    LET text == text_to_check(article)
    IN \A i \in 1..Len(kws) : IsSubstr(Lower(kws[i]), text)

\* any(keyword in text_to_check for keyword in exclude_keywords_lower)
contains_excluded(article, kws) ==
    LET text == text_to_check(article)
    IN \E i \in 1..Len(kws) : IsSubstr(Lower(kws[i]), text)

\* EffectiveExclude without the replacement by the defaults
EffectiveExcludeAsGiven(ex) == ex.kws

\* lines 200-201: an absent or empty argument is replaced by the defaults
EffectiveExclude(ex) ==
    IF ~ex.given \/ ex.kws = <<>> THEN default_excluded_keywords ELSE ex.kws

\* article.title[:50] in the log line of an excluded record: None has no slice
Subscriptable(title) == title # NoneVal

\* filter_articles_by_keywords: the list it returns, or `raised` when the log
\* line of an excluded record raises TypeError
filter_articles_by_keywords(arts, ex) ==
    LET kws == EffectiveExclude(ex)
    IN IF kws = <<>> THEN [raised |-> FALSE, list |-> arts]
       ELSE [raised |-> \E i \in 1..Len(arts) :
                            /\ contains_excluded(arts[i], kws)
                            /\ ~Subscriptable(arts[i].title),
             list |-> SelectSeq(arts, LAMBDA a : ~contains_excluded(a, kws))]

----------------------------------------------------------------------------
(* The keyword-search API *)

\* self.lgbtq_keywords[:5]
QueryLimit == 5

W_Removed == <<"[","R","e","m","o","v","e","d","]">>

\* an article of the API's payload; Missing marks an absent key
ApiItem(title, description, content, url, publishedAt, source, urlToImage) ==
    [title |-> title, description |-> description, content |-> content, url |-> url,
     publishedAt |-> publishedAt, source |-> source, urlToImage |-> urlToImage]

\* datetime.fromisoformat(text.replace('Z', '+00:00')): the zone suffix decides
\* whether the result is aware; a text without suffix gives a naive timestamp
FromIsoFormat(t) ==
    IF t.zone = "Z" THEN Aware(t.wall, 0)
    ELSE IF t.zone = "+02:00" THEN Aware(t.wall, 2)
    ELSE Naive(t.wall)

\* the body of the article loop, lines 444-467: the records it appends.  Every
\* exception (missing key, None where text is needed, bad date) skips the article.
ProcessApiItem(article_data) ==
    IF article_data.content \in {Missing, NoneVal, <<>>} \/ article_data.content = W_Removed
    THEN <<>>
    ELSE IF article_data.publishedAt.k # "ok" THEN <<>>
    ELSE IF article_data.title = Missing \/ article_data.description = Missing
            \/ article_data.url = Missing \/ article_data.source = "<missing>"
    THEN <<>>
    ELSE <<Article(article_data.title,
                   IF Falsy(article_data.description) THEN article_data.content
                   ELSE article_data.description,
                   article_data.url,
                   FromIsoFormat(article_data.publishedAt),
                   article_data.source,
                   IF article_data.urlToImage = Missing THEN NoneVal
                   ELSE article_data.urlToImage)>>

RECURSIVE ProcessApiItems(_)
ProcessApiItems(items) ==
    IF items = <<>> THEN <<>>
    ELSE ProcessApiItem(Head(items)) \o ProcessApiItems(Tail(items))

A_Dup ==
    ApiItem(T_Pride, W_ok, W_ok, U2, [k |-> "ok", wall |-> Now0 - 1, zone |-> "Z"],
            "Advocate", Img1)
A_Naive ==
    ApiItem(T_Pride, NoneVal, W_ok, U3, [k |-> "ok", wall |-> Now0 - 1, zone |-> ""],
            "BBC", Missing)
A_NullTitle ==
    ApiItem(NoneVal, W_murder, W_ok, U2, [k |-> "ok", wall |-> Now0, zone |-> "+02:00"],
            "CNN", NoneVal)
A_Removed ==
    ApiItem(T_Gay, W_ok, W_Removed, U2, [k |-> "ok", wall |-> Now0, zone |-> "Z"],
            "CNN", NoneVal)
A_NoUrl ==
    ApiItem(T_Pride, W_ok, W_ok, Missing, [k |-> "ok", wall |-> Now0, zone |-> "Z"],
            "CNN", NoneVal)

ApiCatalog == {A_Dup, A_Naive, A_NullTitle, A_Removed, A_NoUrl}

\* what the API may answer to one query when it may deliver at most n articles:
\* a failed request or error status, a body that is no JSON object with an
\* article list, or lists of up to n articles
ApiResponses(n) ==
    {[k |-> "http_error", items |-> <<>>], [k |-> "bad_payload", items |-> <<>>],
     [k |-> "ok", items |-> <<>>]}
    \cup {[k |-> "ok", items |-> its] : its \in UNION {[1..m -> ApiCatalog] : m \in 1..n}}

----------------------------------------------------------------------------
(* collect_all_sources, step by step *)

W_hatecrime == <<"h","a","t","e"," ","c","r","i","m","e">>

\* the exclude_keywords arguments tried
ExcludeChoices ==
    {NoExclude, Exclude(<<>>), Exclude(<<W_hatecrime>>), Exclude(<<T_Pride>>),
     Exclude(<<T_Pride, W_hatecrime>>)}

\* collect_all_sources(hours_back, exclude_keywords) is called and enters
\* collect_from_rss_with_resilience.  (exclude_keywords is first read by the
\* filter; the model draws it there.)
CallCollectAllSources ==
    /\ pc = "idle"
    /\ \E hb \in HoursBackChoices :
          /\ hours_back' = hb
          /\ cutoff_time' = Aware(now - hb, 0)
    /\ pc' = "rss"
    /\ UNCHANGED <<version, exclude_keywords, now, idx, feed, articles, failed_feeds,
                   successful_feeds, kwIdx, queried, news_articles, all_articles,
                   unique_articles, filtered_articles, outcome, received, server_zone,
                   deduped_again, feed_health, route_response, item, page_requested,
                   feed_name, test_fetches, api_answer, parsed_date, stamp, normalized,
                   shared, collect_calls, health_run>>

\* ApiIteration in which a failed query also drops the records of earlier keywords
ApiIterationDiscards(keyword, response) ==
    /\ queried' = Append(queried, keyword)
    /\ news_articles' =
          IF response.k = "ok"
          THEN news_articles \o ProcessApiItems(response.items)
          ELSE <<>>
    /\ received' = received + Len(response.items)
    /\ kwIdx' = kwIdx + 1
    /\ api_answer' = response

\* the body of the keyword loop of collect_from_newsapi, lines 427-473: the
\* records of the response's articles are appended; a failed request, an error
\* status or an unusable body appends nothing
ApiIteration(keyword, response) ==
    /\ queried' = Append(queried, keyword)
    /\ news_articles' =
          IF response.k = "ok"
          THEN news_articles \o ProcessApiItems(response.items)
          ELSE news_articles
    /\ received' = received + Len(response.items)
    /\ kwIdx' = kwIdx + 1
    /\ api_answer' = response

\* hours of a calendar day: the unit strftime('%Y-%m-%d') truncates to
HoursPerDay == 24

\* line 424: the `from` parameter, the start of the UTC day of now - hours_back
from_date(clock, hb) == ((clock - hb) \div HoursPerDay) * HoursPerDay

\* an answer of an API that honours `from`: no article published before it
HonoursFrom(response, from) ==
    \A i \in 1..Len(response.items) :
        response.items[i].publishedAt.k = "ok" =>
            Instant(FromIsoFormat(response.items[i].publishedAt)) >= from

ApiStep ==
    /\ pc = "api"
    /\ kwIdx <= QueryLimit
    /\ kwIdx <= Len(lgbtq_keywords)
    /\ \E response \in ApiResponses(MaxEntries - received) :
          /\ HonoursFrom(response, from_date(now, hours_back))
          /\ ApiIteration(lgbtq_keywords[kwIdx], response)
    /\ UNCHANGED <<version, pc, hours_back, exclude_keywords, now, cutoff_time, idx,
                   feed, articles, failed_feeds, successful_feeds, all_articles,
                   unique_articles, filtered_articles, outcome, server_zone,
                   deduped_again, feed_health, route_response, item, page_requested,
                   feed_name, test_fetches, parsed_date, stamp, normalized, shared,
                   collect_calls, health_run>>

\* ApiReturn with the API records put in front of the syndication records
ApiReturnInFront ==
    /\ pc = "api"
    /\ (kwIdx > QueryLimit \/ kwIdx > Len(lgbtq_keywords))
    /\ pc' = "dedup"
    /\ all_articles' = news_articles \o all_articles
    /\ news_articles' = <<>>
    /\ received' = 0
    /\ api_answer' = NoAnswer
    /\ UNCHANGED <<version, hours_back, exclude_keywords, now, cutoff_time, idx, feed,
                   articles, failed_feeds, successful_feeds, kwIdx, queried,
                   unique_articles, filtered_articles, outcome, server_zone,
                   deduped_again, feed_health, route_response, item, page_requested,
                   feed_name, test_fetches, parsed_date, stamp, normalized, shared,
                   collect_calls, health_run>>

\* collect_from_newsapi returns and its locals are gone; collect_all_sources
\* extends all_articles
ApiReturn ==
    /\ pc = "api"
    /\ (kwIdx > QueryLimit \/ kwIdx > Len(lgbtq_keywords))
    /\ pc' = "dedup"
    /\ all_articles' = all_articles \o news_articles
    /\ news_articles' = <<>>
    /\ received' = 0
    /\ api_answer' = NoAnswer
    /\ UNCHANGED <<version, hours_back, exclude_keywords, now, cutoff_time, idx, feed,
                   articles, failed_feeds, successful_feeds, kwIdx, queried,
                   unique_articles, filtered_articles, outcome, server_zone,
                   deduped_again, feed_health, route_response, item, page_requested,
                   feed_name, test_fetches, parsed_date, stamp, normalized, shared,
                   collect_calls, health_run>>

\* line 489
Dedup ==
    /\ pc = "dedup"
    /\ unique_articles' = _deduplicate_articles(all_articles)
    /\ pc' = "filter"
    /\ UNCHANGED <<version, hours_back, exclude_keywords, now, cutoff_time, idx, feed,
                   articles, failed_feeds, successful_feeds, kwIdx, queried,
                   news_articles, all_articles, filtered_articles, outcome,
                   received, server_zone, deduped_again, feed_health, route_response,
                   item, page_requested, feed_name, test_fetches, api_answer,
                   parsed_date, stamp, normalized, shared, collect_calls, health_run>>

\* Filter with the two stages in the other order: the filter runs on the merged
\* sequence and its list is deduplicated
FilterThenDedup ==
    /\ pc \in {"filter", "filter_direct"}
    /\ \E ex \in ExcludeChoices :
          LET r == filter_articles_by_keywords(all_articles, ex)
          IN /\ exclude_keywords' = ex
             /\ filtered_articles' = IF r.raised THEN <<>>
                                    ELSE _deduplicate_articles(r.list)
             /\ outcome' = IF r.raised THEN "raised" ELSE "returned"
    /\ pc' = IF pc = "filter" THEN "done" ELSE "done_direct"
    /\ UNCHANGED <<version, hours_back, now, cutoff_time, idx, feed, articles,
                   failed_feeds, successful_feeds, kwIdx, queried, news_articles,
                   all_articles, unique_articles, received, server_zone, deduped_again,
                   feed_health, route_response, item, page_requested, feed_name,
                   test_fetches, api_answer, parsed_date, stamp, normalized, shared,
                   collect_calls, health_run>>

\* lines 492-495: the filter runs on unique_articles and its list is returned,
\* unless it raises
Filter ==
    /\ pc \in {"filter", "filter_direct"}
    /\ \E ex \in ExcludeChoices :
          LET r == filter_articles_by_keywords(unique_articles, ex)
          IN /\ exclude_keywords' = ex
             /\ filtered_articles' = IF r.raised THEN <<>> ELSE r.list
             /\ outcome' = IF r.raised THEN "raised" ELSE "returned"
    /\ pc' = IF pc = "filter" THEN "done" ELSE "done_direct"
    /\ UNCHANGED <<version, hours_back, now, cutoff_time, idx, feed, articles,
                   failed_feeds, successful_feeds, kwIdx, queried, news_articles,
                   all_articles, unique_articles, received, server_zone, deduped_again,
                   feed_health, route_response, item, page_requested, feed_name,
                   test_fetches, api_answer, parsed_date, stamp, normalized, shared,
                   collect_calls, health_run>>

Next ==
    \/ CallCollectAllSources
    \/ RssStep
    \/ RssReturn
    \/ ApiStep
    \/ ApiReturn
    \/ Dedup
    \/ Filter

Spec == Init /\ [][Next]_vars

----------------------------------------------------------------------------
(* Records built one by one and handed to the deduplicator or the filter *)

W_a_Murder == <<"a"," ">> \o W_Murder

\* the field values an Article is constructed from
RawRecord(title, content, url, source) ==
    [title |-> title, content |-> content, url |-> url, source |-> source]

RawCatalog ==
    {RawRecord(T_Gay, W_ok, U1, "advocate"),
     RawRecord(T_Gay, W_a_Murder, U1, "pinknews"),
     RawRecord(<<"G","a">>, W_ok, <<"y","u","1">>, "advocate"),
     RawRecord(T_Pride, W_ok, U2, "pinknews"),
     RawRecord(T_Hate, W_crime, U3, "advocate"),
     RawRecord(NoneVal, W_murder, U2, "CNN")}

Build(raw) ==
    Article(raw.title, raw.content, raw.url, Aware(Now0, 0), raw.source, NoneVal)

\* Article(...) is constructed and appended to the list under construction
NewArticle ==
    /\ pc = "idle"
    /\ Len(all_articles) < MaxLen
    /\ \E raw \in RawCatalog : all_articles' = Append(all_articles, Build(raw))
    /\ UNCHANGED <<version, pc, hours_back, exclude_keywords, now, cutoff_time, idx,
                   feed, articles, failed_feeds, successful_feeds, kwIdx, queried,
                   news_articles, unique_articles, filtered_articles, outcome,
                   received, server_zone, deduped_again, feed_health, route_response,
                   item, page_requested, feed_name, test_fetches, api_answer,
                   parsed_date, stamp, normalized, shared, collect_calls, health_run>>

\* _deduplicate_articles(all_articles) is called
CallDedup ==
    /\ pc = "idle"
    /\ pc' = "dedup"
    /\ UNCHANGED <<version, hours_back, exclude_keywords, now, cutoff_time, idx, feed,
                   articles, failed_feeds, successful_feeds, kwIdx, queried,
                   news_articles, all_articles, unique_articles, filtered_articles,
                   outcome, received, server_zone, deduped_again, feed_health,
                   route_response, item, page_requested, feed_name, test_fetches,
                   api_answer, parsed_date, stamp, normalized, shared, collect_calls,
                   health_run>>

\* filter_articles_by_keywords(all_articles, exclude_keywords) is called directly
CallFilter ==
    /\ pc = "idle"
    /\ pc' = "filter_direct"
    /\ unique_articles' = all_articles
    /\ UNCHANGED <<version, hours_back, exclude_keywords, now, cutoff_time, idx, feed,
                   articles, failed_feeds, successful_feeds, kwIdx, queried,
                   news_articles, all_articles, filtered_articles, outcome,
                   received, server_zone, deduped_again, feed_health, route_response,
                   item, page_requested, feed_name, test_fetches, api_answer,
                   parsed_date, stamp, normalized, shared, collect_calls, health_run>>

\* _deduplicate_articles is called on the list the call before returned
DedupAgain ==
    /\ pc = "filter"
    /\ deduped_again' = _deduplicate_articles(unique_articles)
    /\ pc' = "dedup_again"
    /\ UNCHANGED <<version, hours_back, exclude_keywords, now, cutoff_time, idx, feed,
                   articles, failed_feeds, successful_feeds, kwIdx, queried,
                   news_articles, all_articles, unique_articles, filtered_articles,
                   outcome, received, server_zone, feed_health, route_response, item,
                   page_requested, feed_name, test_fetches, api_answer, parsed_date,
                   stamp, normalized, shared, collect_calls, health_run>>

NextRecords ==
    \/ NewArticle
    \/ CallDedup
    \/ CallFilter
    \/ Dedup
    \/ Filter
    \/ DedupAgain

SpecRecords == Init /\ [][NextRecords]_vars

----------------------------------------------------------------------------
(* Properties of the deduplicator, the fingerprint and the filter *)

Done == pc \in {"done", "done_direct"}

\* the elements of L at the positions of I, in the order of L
RECURSIVE SubseqAt(_, _, _)
SubseqAt(L, I, i) ==
    IF i > Len(L) THEN <<>>
    ELSE (IF i \in I THEN <<L[i]>> ELSE <<>>) \o SubseqAt(L, I, i + 1)

\* the positions whose fingerprint no earlier position carries
FirstOccurrences(L) ==
    {i \in 1..Len(L) : \A j \in 1..(i - 1) : L[j].hash_id # L[i].hash_id}

\* C4: once _deduplicate_articles has run, its result holds exactly the records
\* of the input that no earlier record of the input shares its hash_id with, in
\* input order.
C4_DedupFirstWins ==
    pc \in {"filter", "done"} =>
        unique_articles = SubseqAt(all_articles, FirstOccurrences(all_articles), 1)

\* C4 witness: the input [A, B, A', C], A' a duplicate of A with another body,
\* gave [A, B, C]
C4_Witness ==
    /\ pc = "filter"
    /\ Len(all_articles) = 4
    /\ all_articles[1] = Build(RawRecord(T_Gay, W_ok, U1, "advocate"))
    /\ all_articles[2] = Build(RawRecord(T_Pride, W_ok, U2, "pinknews"))
    /\ all_articles[3] = Build(RawRecord(T_Gay, W_a_Murder, U1, "pinknews"))
    /\ all_articles[4] = Build(RawRecord(T_Hate, W_crime, U3, "advocate"))
    /\ unique_articles = <<all_articles[1], all_articles[2], all_articles[4]>>

\* C5: two records have the same hash_id exactly when they have the same title
\* and the same url (the hash taken as collision-free).
C5_HashIdentifiesTitleUrl ==
    \A i, j \in 1..Len(all_articles) :
        (all_articles[i].hash_id = all_articles[j].hash_id)
            <=> (/\ all_articles[i].title = all_articles[j].title
                 /\ all_articles[i].url = all_articles[j].url)

\* the terms of an exclude_keywords argument, as a set
KwSet(ex) == {ex.kws[i] : i \in 1..Len(ex.kws)}

EmptyOrUnset(ex) == ~ex.given \/ ex.kws = <<>>

\* C6 as claimed: whenever the filter has returned for an argument T, it returned
\* no more records than it returns for any argument S whose terms are among
\* those of T, empty and unset arguments included.
C6_Monotonic ==
    (Done /\ outcome = "returned") =>
        \A S \in ExcludeChoices :
            KwSet(S) \subseteq KwSet(exclude_keywords) =>
                Len(filtered_articles)
                    <= Len(filter_articles_by_keywords(unique_articles, S).list)

\* C6 amended: the same, for arguments S that are non-empty (or when T is empty
\* or unset too): an empty or unset S stands for the default list, which need not
\* be contained in T.
C6_MonotonicNonEmpty ==
    (Done /\ outcome = "returned") =>
        \A S \in ExcludeChoices :
            (/\ KwSet(S) \subseteq KwSet(exclude_keywords)
             /\ (~EmptyOrUnset(S) \/ EmptyOrUnset(exclude_keywords))) =>
                /\ ~filter_articles_by_keywords(unique_articles, S).raised
                /\ Len(filtered_articles)
                      <= Len(filter_articles_by_keywords(unique_articles, S).list)

\* C6 witness: the filter returned for ["Pride", "hate crime"] strictly fewer
\* records than it returns for ["Pride"]
C6_Witness ==
    /\ Done
    /\ outcome = "returned"
    /\ exclude_keywords = Exclude(<<T_Pride, W_hatecrime>>)
    /\ Len(filtered_articles)
          < Len(filter_articles_by_keywords(unique_articles, Exclude(<<T_Pride>>)).list)

\* some term, lower-cased, occurs in the lower-cased text
TermOccurs(kws, text) == \E i \in 1..Len(kws) : IsSubstr(Lower(kws[i]), Lower(text))

C8_DefaultsApplied ==
    (Done /\ EmptyOrUnset(exclude_keywords)) =>
        LET r == filter_articles_by_keywords(unique_articles,
                                             Exclude(default_excluded_keywords))
        IN /\ (outcome = "raised") = r.raised
           /\ outcome = "returned" =>
                 /\ filtered_articles = r.list
                 /\ \A i \in 1..Len(filtered_articles) :
                       ~IsSubstr(W_murder,
                                 Lower(Str(filtered_articles[i].title) \o <<" ">>
                                       \o Str(filtered_articles[i].content)))

\* C8 witness: collect_all_sources, called without exclude_keywords, returned a
\* list from which a record containing "Murder" was dropped
C8_Witness ==
    /\ pc = "done"
    /\ outcome = "returned"
    /\ exclude_keywords = NoExclude
    /\ \E i \in 1..Len(unique_articles) : IsSubstr(W_Murder, unique_articles[i].content)
    /\ \A i \in 1..Len(filtered_articles) :
          ~IsSubstr(W_Murder, filtered_articles[i].content)
    /\ filtered_articles # <<>>

----------------------------------------------------------------------------
(* Properties of collect_all_sources *)

\* C2: collect_all_sources never ends with an error: whenever it has ended, it
\* has returned a list.
C2_NeverEndsWithError == pc = "done" => outcome = "returned"

\* C3: every record of the list collect_all_sources returned has a
\* timezone-qualified published_date.
C3_AllAware ==
    (pc = "done" /\ outcome = "returned") =>
        \A i \in 1..Len(filtered_articles) : filtered_articles[i].published_date.aware

\* the place of a record's source in the merge order: the position of a
\* syndication source in rss_feeds, and after all of them for an API record
SourceRank(source) ==
    IF \E k \in 1..Len(rss_feeds) : rss_feeds[k] = source
    THEN CHOOSE k \in 1..Len(rss_feeds) : rss_feeds[k] = source
    ELSE Len(rss_feeds) + 1

\* the merged sequence has the syndication records first, source by source in
\* configuration order, then the API records
MergedInOrder ==
    pc \in {"dedup", "filter", "done"} =>
        \A i, j \in 1..Len(all_articles) :
            i < j => SourceRank(all_articles[i].source) <= SourceRank(all_articles[j].source)

\* what is returned: the first occurrences of the merged sequence, and of these
\* the ones the filter keeps, in the order of the merged sequence
DedupThenFilter ==
    (pc = "done" /\ outcome = "returned") =>
        filtered_articles =
            SubseqAt(all_articles,
                     {i \in FirstOccurrences(all_articles) :
                         ~contains_excluded(all_articles[i],
                                            EffectiveExclude(exclude_keywords))},
                     1)

\* each keyword's records go behind those of the keywords queried before, and
\* the API records go behind the syndication records
MergeSteps ==
    /\ (pc = "api" /\ pc' = "api") =>
          /\ Len(news_articles') >= Len(news_articles)
          /\ SubSeq(news_articles', 1, Len(news_articles)) = news_articles
          /\ queried' = Append(queried, lgbtq_keywords[Len(queried) + 1])
    /\ (pc = "api" /\ pc' = "dedup") => all_articles' = all_articles \o news_articles

\* C10: the list collect_all_sources returns is a subsequence of the merged
\* sequence (syndication records in source-configuration order, then the API
\* records in keyword-iteration order), namely the merged sequence deduplicated
\* and then filtered.
C10_MergeDedupFilter ==
    /\ [](MergedInOrder /\ DedupThenFilter)
    /\ [][MergeSteps]_vars

\* C10 witness: a list was returned that held no record of a fingerprint whose
\* first record, from a syndication source, was excluded while its duplicate
\* from the API would have passed the filter
C10_Witness ==
    /\ pc = "done"
    /\ outcome = "returned"
    /\ filtered_articles # <<>>
    /\ \E i, j \in 1..Len(all_articles) :
          /\ i < j
          /\ SourceRank(all_articles[i].source) <= Len(rss_feeds)
          /\ SourceRank(all_articles[j].source) > Len(rss_feeds)
          /\ all_articles[i].hash_id = all_articles[j].hash_id
          /\ contains_excluded(all_articles[i], EffectiveExclude(exclude_keywords))
          /\ ~contains_excluded(all_articles[j], EffectiveExclude(exclude_keywords))
          /\ \A k \in 1..Len(filtered_articles) :
                filtered_articles[k].hash_id # all_articles[i].hash_id

----------------------------------------------------------------------------
(* Further properties of the deduplicator *)

\* C11: _deduplicate_articles applied to its own result returns that result
\* unchanged.
C11_DedupIdempotent ==
    pc = "dedup_again" => deduped_again = unique_articles

\* C11 witness: a list with three records of one fingerprint and a fourth record
\* was deduplicated to two records, and deduplicated again
C11_Witness ==
    /\ pc = "dedup_again"
    /\ Len(all_articles) = 4
    /\ all_articles[1].hash_id = all_articles[2].hash_id
    /\ all_articles[2].hash_id = all_articles[3].hash_id
    /\ Len(unique_articles) = 2
    /\ Len(deduped_again) = 2

----------------------------------------------------------------------------
(* validate_feed_health behind the route /admin/feed-health *)

\* an entry without a title element
E_NoTitle == [BlankEntry EXCEPT !.link = U1]

\* what the upstream of one source may answer to the probe: a failed request, a
\* parse without entries, one entry parsed cleanly, or one entry salvaged from a
\* document for which the parser reported an error or a notice
HealthUpstreams(source_name) ==
    {[http |-> "error", parsed |-> BozoEmpty, fallback |-> BozoEmpty]}
    \cup {[http |-> "ok", parsed |-> Feed(<<>>, b), fallback |-> BozoEmpty] : b \in BOOLEAN}
    \cup {[http |-> "ok", parsed |-> Feed(<<e>>, FALSE), fallback |-> BozoEmpty] :
             e \in EntryCatalog \cup {E_NoTitle}}
    \cup {[http |-> "ok", parsed |-> BozoFeed(<<E_Text>>, x), fallback |-> BozoEmpty] :
             x \in {X_SyntaxError, X_MismatchedTag, X_EncodingOverride}}
    \cup {[http |-> "ok", parsed |-> BozoEmpty, fallback |-> Feed(<<E_Undated>>, FALSE)] :
             k \in IF Kind(source_name) = "google" THEN {1} ELSE {}}

\* lines 179-190: the verdict for one fetched feed.  feed.entries of an empty
\* FeedParserDict raises AttributeError, which the except clause turns into False.
HealthVerdict(f) ==
    IF ~f.has_entries THEN FALSE
    ELSE LET has_entries == f.entries # <<>>
             has_major_error == f.bozo /\ IsSubstr(W_syntax_error, f.bozo_exception)
         IN has_entries /\ ~has_major_error

\* feed_health[source_name] = verdict
SetItem(d, key, value) ==
    [n \in DOMAIN d \cup {key} |-> IF n = key THEN value ELSE d[n]]

\* GET /admin/feed-health: admin_feed_health calls validate_feed_health
CallValidateFeedHealth ==
    /\ pc = "idle"
    /\ pc' = "health"
    /\ feed_health' = [n \in {} |-> FALSE]
    /\ idx' = 1
    /\ UNCHANGED <<version, hours_back, exclude_keywords, now, cutoff_time, feed,
                   articles, failed_feeds, successful_feeds, kwIdx, queried,
                   news_articles, all_articles, unique_articles, filtered_articles,
                   outcome, received, server_zone, deduped_again, route_response, item,
                   page_requested, feed_name, test_fetches, api_answer, parsed_date,
                   stamp, normalized, shared, collect_calls, health_run>>

\* the body of the source loop, lines 172-190
HealthIteration(source_name, up) ==
    LET f == _fetch_and_fix_feed(source_name, up)
    IN /\ feed' = f
       /\ feed_health' = SetItem(feed_health, source_name, HealthVerdict(f))
       /\ idx' = idx + 1

HealthStep ==
    /\ pc = "health"
    /\ idx <= Len(rss_feeds)
    /\ \E up \in HealthUpstreams(rss_feeds[idx]) : HealthIteration(rss_feeds[idx], up)
    /\ UNCHANGED <<version, pc, hours_back, exclude_keywords, now, cutoff_time,
                   articles, failed_feeds, successful_feeds, kwIdx, queried,
                   news_articles, all_articles, unique_articles, filtered_articles,
                   outcome, received, server_zone, deduped_again, route_response, item,
                   page_requested, feed_name, test_fetches, api_answer, parsed_date,
                   stamp, normalized, shared, collect_calls, health_run>>

\* the names of d with the given verdict, in insertion order
NamesWith(d, verdict) ==
    SelectSeq(rss_feeds, LAMBDA n : n \in DOMAIN d /\ d[n] = verdict)

\* validate_feed_health returns the mapping and admin_feed_health answers with
\* its summary, lines 836-847
HealthReturn ==
    /\ pc = "health"
    /\ idx > Len(rss_feeds)
    /\ pc' = "health_done"
    /\ route_response' =
          [status |-> 200,
           total_feeds |-> Cardinality(DOMAIN feed_health),
           healthy_feeds |-> Len(NamesWith(feed_health, TRUE)),
           unhealthy_feeds |-> Len(NamesWith(feed_health, FALSE)),
           healthy_feed_list |-> NamesWith(feed_health, TRUE),
           unhealthy_feed_list |-> NamesWith(feed_health, FALSE),
           feed_details |-> feed_health]
    /\ UNCHANGED <<version, hours_back, exclude_keywords, now, cutoff_time, idx, feed,
                   articles, failed_feeds, successful_feeds, kwIdx, queried,
                   news_articles, all_articles, unique_articles, filtered_articles,
                   outcome, received, server_zone, deduped_again, feed_health, item,
                   page_requested, feed_name, test_fetches, api_answer, parsed_date,
                   stamp, normalized, shared, collect_calls, health_run>>

\* a name that is no key of rss_feeds
UnknownFeed == "no_such_feed"

FeedNames == {rss_feeds[i] : i \in 1..Len(rss_feeds)}

\* lines 871-896: the answer for a fetched feed.  feed.entries of an empty
\* FeedParserDict and entry.title of an entry without title raise
\* AttributeError, which the except clause answers with status 500.
TestReport(name, f) ==
    IF ~f.has_entries
       \/ \E i \in 1..Len(f.entries) : i <= 3 /\ f.entries[i].title = Missing
    THEN [status |-> 500, feed_name |-> name, error |-> TRUE, entries_found |-> 0,
          has_bozo_error |-> FALSE, sample_titles |-> <<>>]
    ELSE [status |-> 200, feed_name |-> name, error |-> FALSE,
          entries_found |-> Len(f.entries),
          has_bozo_error |-> f.bozo,
          sample_titles |-> [i \in 1..Len(f.entries) |-> f.entries[i].title]]

\* an unknown name answered as if all were well
NotFoundAnswered200 == [status |-> 200, error |-> FALSE]

\* the answer to a name that is not configured, lines 866-867
NotFound == [status |-> 404, error |-> TRUE]

\* GET /admin/test-feed/<feed_name>
admin_test_single_feed ==
    /\ pc = "idle"
    /\ pc' = "test_done"
    /\ \E name \in FeedNames \cup {UnknownFeed} :
          /\ feed_name' = name
          /\ IF name \notin FeedNames
             THEN /\ route_response' = NotFound
                  /\ UNCHANGED <<feed, test_fetches>>
             ELSE \E up \in HealthUpstreams(name) :
                     /\ feed' = _fetch_and_fix_feed(name, up)
                     /\ test_fetches' = Append(test_fetches, name)
                     /\ route_response' = TestReport(name, _fetch_and_fix_feed(name, up))
    /\ UNCHANGED <<version, hours_back, exclude_keywords, now, cutoff_time, idx,
                   articles, failed_feeds, successful_feeds, kwIdx, queried,
                   news_articles, all_articles, unique_articles, filtered_articles,
                   outcome, received, server_zone, deduped_again, feed_health,
                   item, page_requested, api_answer, parsed_date, stamp, normalized,
                   shared, collect_calls, health_run>>

NextAdmin ==
    \/ CallValidateFeedHealth
    \/ HealthStep
    \/ HealthReturn
    \/ admin_test_single_feed

SpecAdmin == Init /\ [][NextAdmin]_vars

\* the XML parser gave up on the document: any of its fatal errors
HardParseError(f) == f.bozo /\ f.bozo_exception \in {X_SyntaxError, X_MismatchedTag}

\* the mapping has one entry for each source probed so far, and one for every
\* configured source once the loop has ended
OneEntryPerSource ==
    /\ pc = "health" => DOMAIN feed_health = {rss_feeds[i] : i \in 1..(idx - 1)}
    /\ pc = "health_done" =>
          /\ DOMAIN feed_health = {rss_feeds[i] : i \in 1..Len(rss_feeds)}
          /\ route_response.feed_details = feed_health

\* a probe sets the verdict of its own source from its own fetch and leaves the
\* verdicts of the other sources as they were
OwnVerdict ==
    (pc = "health" /\ pc' = "health") =>
        /\ \A n \in DOMAIN feed_health : feed_health'[n] = feed_health[n]
        /\ feed_health'[rss_feeds[idx]] =
              (/\ feed'.has_entries
               /\ feed'.entries # <<>>
               /\ ~HardParseError(feed'))

\* C12: validate_feed_health returns a mapping with exactly one entry per
\* configured source, and a source's value is true iff its own fetch yields at
\* least one entry and reports no hard parse error, whatever the other sources'
\* probes did.
C12_HealthVerdicts == []OneEntryPerSource /\ [][OwnVerdict]_vars

----------------------------------------------------------------------------
(* One entry through the body of the entry loop *)

\* the shapes of the media fields, of the content fields and of the article page
ThumbnailShapes == {AbsentMedia, [k |-> "ok", url |-> Img1], [k |-> "ok", url |-> NoneVal]}
MediaShapes ==
    {<<>>, <<[type |-> "video", url |-> Img2]>>, <<[type |-> "image", url |-> Img2]>>,
     <<[type |-> "video", url |-> Img1], [type |-> "image", url |-> NoneVal]>>}
EnclosureShapes == {<<>>, <<[type |-> "image", url |-> Img3]>>}
ContentShapes ==
    {AbsentField, [k |-> "emptylist", v |-> <<>>], [k |-> "list", v |-> <<>>],
     [k |-> "list", v |-> <<"<img src=pixel>">> \o W_ok],
     [k |-> "list", v |-> <<"<p>", "<img src=i2>">> \o W_ok \o <<"</p>">>]}
SummaryShapes ==
    {AbsentField, [k |-> "str", v |-> <<>>], [k |-> "str", v |-> <<"<b>">> \o W_crime]}
DescriptionShapes == {AbsentField, [k |-> "str", v |-> W_murder]}
PageShapes ==
    {[k |-> "raises", img |-> NoneVal], [k |-> "404", img |-> NoneVal],
     [k |-> "html", img |-> NoneVal], [k |-> "html", img |-> Img3]}

\* entries with a title and a link, in every combination of the shapes above
EntryShapes ==
    {[BlankEntry EXCEPT !.title = T_Gay, !.link = U1,
                        !.media_thumbnail = mt, !.media_content = mc,
                        !.enclosures = en, !.content = ct, !.summary = su,
                        !.description = de, !.page = pg] :
        mt \in ThumbnailShapes, mc \in MediaShapes, en \in EnclosureShapes,
        ct \in ContentShapes, su \in SummaryShapes, de \in DescriptionShapes,
        pg \in PageShapes}

\* the loop takes the next entry of feed.entries, line 364
ReceiveEntry ==
    /\ pc = "idle"
    /\ \E e \in EntryShapes : item' = e
    /\ pc' = "entry"
    /\ UNCHANGED <<version, hours_back, exclude_keywords, now, cutoff_time, idx, feed,
                   articles, failed_feeds, successful_feeds, kwIdx, queried,
                   news_articles, all_articles, unique_articles, filtered_articles,
                   outcome, received, server_zone, deduped_again, feed_health,
                   route_response, page_requested, feed_name, test_fetches, api_answer,
                   parsed_date, stamp, normalized, shared, collect_calls, health_run>>

\* lines 365-395 for the entry in hand; the article page is requested when the
\* entry itself gave no thumbnail (lines 374-377)
ProcessOneEntry ==
    /\ pc = "entry"
    /\ articles' = ProcessEntry(item, rss_feeds[1], cutoff_time, now)
    /\ page_requested' = Falsy(extract_thumbnail_from_rss(item).url)
    /\ pc' = "built"
    /\ UNCHANGED <<version, hours_back, exclude_keywords, now, cutoff_time, idx, feed,
                   failed_feeds, successful_feeds, kwIdx, queried,
                   news_articles, all_articles, unique_articles, filtered_articles,
                   outcome, received, server_zone, deduped_again, feed_health,
                   route_response, item, feed_name, test_fetches, api_answer,
                   parsed_date, stamp, normalized, shared, collect_calls, health_run>>

NextEntry == ReceiveEntry \/ ProcessOneEntry

SpecEntry == Init /\ [][NextEntry]_vars

----------------------------------------------------------------------------
(* Properties of one entry's record *)

\* what each step of the thumbnail chain finds for an entry, NoneVal for nothing:
\* the thumbnail reference, the first image-typed media content, the first
\* image-typed enclosure, the first image tag of the raw content unless it is a
\* data URL or a tracking pixel, and the image of the article page
FoundThumbnailRef(e) ==
    IF e.media_thumbnail.k = "ok" THEN e.media_thumbnail.url ELSE NoneVal
FoundIn(medias) ==
    IF \E i \in 1..Len(medias) : medias[i].type = "image"
    THEN medias[CHOOSE i \in 1..Len(medias) :
                   /\ medias[i].type = "image"
                   /\ \A j \in 1..(i - 1) : medias[j].type # "image"].url
    ELSE NoneVal
FoundInRaw(e) ==
    LET raw == IF e.content.k \in {"list", "str"} THEN e.content.v
               ELSE IF e.summary.k \in {"list", "str"} THEN e.summary.v
               ELSE IF e.description.k \in {"list", "str"} THEN e.description.v
               ELSE <<>>
        tags == SelectSeq(raw, LAMBDA t : t \in ImgTags)
    IN IF tags = <<>> \/ tags[1] # "<img src=i2>" THEN NoneVal ELSE Img2
FoundOnPage(e) == IF e.page.k = "html" THEN e.page.img ELSE NoneVal

\* the ordered chain
ThumbnailChain(e) ==
    <<FoundThumbnailRef(e), FoundIn(e.media_content), FoundIn(e.enclosures),
      FoundInRaw(e), FoundOnPage(e)>>

\* C13: an entry with title and link always gets its record, whatever the steps
\* of thumbnail resolution did; when every step failed or found nothing, the
\* record's thumbnail_url is absent.
C13_ThumbnailNeverAborts ==
    pc = "built" =>
        /\ Len(articles) = 1
        /\ articles[1].title = item.title
        /\ articles[1].url = item.link
        /\ (\A k \in 1..5 : ThumbnailChain(item)[k] = NoneVal)
              => articles[1].thumbnail_url = NoneVal

\* C13 witness: a thumbnail reference without URL, a tracking pixel in the raw
\* content and a failed request of the article page left a record without
\* thumbnail
C13_Witness ==
    /\ pc = "built"
    /\ item.media_thumbnail = [k |-> "ok", url |-> NoneVal]
    /\ item.content = [k |-> "list", v |-> <<"<img src=pixel>">> \o W_ok]
    /\ item.page.k = "raises"
    /\ page_requested
    /\ Len(articles) = 1
    /\ articles[1].thumbnail_url = NoneVal

\* the first URL of a chain, NoneVal when no step yields one
FirstSuccess(chain) ==
    IF \A k \in 1..Len(chain) : chain[k] = NoneVal THEN NoneVal
    ELSE chain[CHOOSE k \in 1..Len(chain) :
                  /\ chain[k] # NoneVal
                  /\ \A j \in 1..(k - 1) : chain[j] = NoneVal]

\* C19: the thumbnail of a record is the first URL that a step of the chain
\* (thumbnail reference, image-typed media content, image-typed enclosure,
\* raw-content search, article page) yields, it is absent only if no step yields
\* one, and the article page is requested only if every step before it yielded
\* nothing.
C19_FirstSuccessWins ==
    pc = "built" =>
        /\ articles[1].thumbnail_url = FirstSuccess(ThumbnailChain(item))
        /\ page_requested => \A k \in 1..4 : ThumbnailChain(item)[k] = NoneVal

\* the text of a content field that is present and not empty, NoneVal otherwise
NonEmptyField(f) ==
    IF f.k \in {"list", "str"} /\ f.v # <<>> THEN f.v ELSE NoneVal

\* C20: the content of a record is the cleaned text of the first of the fields
\* content, summary, description that is present and non-empty, and the empty
\* string when there is none.
C20_FirstNonEmptyField ==
    pc = "built" =>
        LET first == FirstSuccess(<<NonEmptyField(item.content),
                                    NonEmptyField(item.summary),
                                    NonEmptyField(item.description)>>)
        IN articles[1].content =
              IF first = NoneVal THEN <<>> ELSE _clean_html_content(first)

----------------------------------------------------------------------------
(* Properties of the records collect_all_sources returns *)

\* C14: every record of a returned list has a title that is non-empty after
\* trimming, and a url.
C14_TitleAndUrl ==
    (pc = "done" /\ outcome = "returned") =>
        \A i \in 1..Len(filtered_articles) :
            /\ filtered_articles[i].title \notin {NoneVal, Missing}
            /\ Strip(filtered_articles[i].title) # <<>>
            /\ filtered_articles[i].url \notin {NoneVal, Missing, <<>>}

\* C15: every published_date of a returned list is a UTC timestamp, offset zero.
C15_StoredAsUtc ==
    (pc = "done" /\ outcome = "returned") =>
        \A i \in 1..Len(filtered_articles) :
            /\ filtered_articles[i].published_date.aware
            /\ filtered_articles[i].published_date.off = 0

----------------------------------------------------------------------------
(* Provenance of a collection *)

\* a source whose fetch fails is noted in failed_feeds and adds no record; any
\* other source leaves failed_feeds alone and the earlier records in place
FailureNoted ==
    (pc = "rss" /\ version = "250720" /\ idx <= Len(rss_feeds)) =>
        /\ pc' = "rss"
        /\ IF NoEntries(feed')
           THEN /\ failed_feeds' = Append(failed_feeds, rss_feeds[idx])
                /\ articles' = articles
           ELSE /\ failed_feeds' = failed_feeds
                /\ Len(articles') >= Len(articles)
                /\ SubSeq(articles', 1, Len(articles)) = articles

\* the records of all sources are handed to collect_all_sources
RecordsHandedOver ==
    (pc = "rss" /\ pc' = "api") => all_articles' = all_articles \o articles

----------------------------------------------------------------------------
(* Properties of the route that tests one source *)

\* the answer is "not found" exactly for a name that is not configured, and then
\* nothing was fetched
NotFoundIffUnknown ==
    pc = "test_done" =>
        /\ (route_response = NotFound) <=> (feed_name \notin FeedNames)
        /\ (route_response.status = 404) <=> (feed_name \notin FeedNames)
        /\ feed_name \notin FeedNames => (test_fetches = <<>> /\ feed = EmptyDict)

\* C17 as claimed: "not found" exactly for an unknown name, without a fetch, and
\* no other answer of the route is an error.
C17_OnlyNotFoundIsError ==
    /\ NotFoundIffUnknown
    /\ pc = "test_done" => (route_response.error <=> route_response.status = 404)

\* C17 amended: "not found" exactly for an unknown name, without a fetch; for a
\* configured source the route fetches once and answers with an error of status
\* 500 exactly when the fetched feed has no entry list or one of its first three
\* entries has no title, and with the report otherwise.
C17_NotFoundOrFetched ==
    /\ NotFoundIffUnknown
    /\ (pc = "test_done" /\ feed_name \in FeedNames) =>
          /\ test_fetches = <<feed_name>>
          /\ route_response.error <=> route_response.status = 500
          /\ route_response.status \in {200, 500}
          /\ route_response.status = 500 <=>
                \/ ~feed.has_entries
                \/ \E i \in 1..Len(feed.entries) :
                      i <= 3 /\ feed.entries[i].title = Missing
          /\ route_response.status = 200 =>
                route_response.entries_found = Len(feed.entries)

\* C17 witness: the unknown name was answered with "not found"
C17_Witness ==
    /\ pc = "test_done"
    /\ feed_name = UnknownFeed
    /\ route_response = NotFound
    /\ test_fetches = <<>>

----------------------------------------------------------------------------
(* Entry-level failures *)

RECURSIVE EachAlone(_, _, _)
\* the records of a batch when every entry is processed by itself
EachAlone(entries, src, clock) ==
    IF entries = <<>> THEN <<>>
    ELSE (IF version = "250720"
          THEN ProcessEntry(Head(entries), src, cutoff_time, clock)
          ELSE LegacyProcessEntry(Head(entries), src, cutoff_time, clock,
                                  server_zone).arts)
         \o EachAlone(Tail(entries), src, clock)

\* C18: in both collectors a batch yields the records of its entries each taken
\* alone, a failing entry adding none, and the loop goes on to the next source
\* with the call still running.
C18_EntryFailureIsolated ==
    [][(pc = "rss" /\ idx <= Len(rss_feeds)) =>
          /\ outcome' = "running"
          /\ pc' = "rss"
          /\ idx' = idx + 1
          /\ articles' = articles \o
                (IF feed'.has_entries
                 THEN EachAlone(feed'.entries, rss_feeds[idx], now')
                 ELSE <<>>)]_vars

----------------------------------------------------------------------------
(* The recency window of the keyword search *)

\* C21: no record of an API source in the list collect_all_sources(hours_back)
\* returned has a published_date older than now - hours_back.
C21_ApiWithinWindow ==
    (pc = "done" /\ outcome = "returned") =>
        \A i \in 1..Len(filtered_articles) :
            filtered_articles[i].source \notin FeedNames =>
                Instant(filtered_articles[i].published_date) >= Now0 - hours_back

----------------------------------------------------------------------------
(* The keyword loop of collect_from_newsapi *)

\* an article the loop discards without an error: no content, or the sentinel
RemovedArticle(a) == a.content \in {Missing, NoneVal, <<>>, W_Removed}

\* an article whose processing raises: a key is absent or the date is no ISO text
MalformedArticle(a) ==
    /\ ~RemovedArticle(a)
    /\ \/ a.publishedAt.k # "ok"
       \/ Missing \in {a.title, a.description, a.url}
       \/ a.source = "<missing>"

\* the articles of an answer that a record is owed for
WellFormed(items) ==
    SelectSeq(items, LAMBDA a : ~RemovedArticle(a) /\ ~MalformedArticle(a))

\* the articles of an answer up to its first malformed one
RECURSIVE UpToMalformed(_)
UpToMalformed(items) ==
    IF items = <<>> \/ MalformedArticle(Head(items)) THEN <<>>
    ELSE <<Head(items)>> \o UpToMalformed(Tail(items))

\* new holds one record per article of owed, in order
RecordsOf(owed, new) ==
    /\ Len(new) = Len(owed)
    /\ \A i \in 1..Len(owed) :
          /\ new[i].title = owed[i].title
          /\ new[i].url = owed[i].url
          /\ new[i].source = owed[i].source

InKeywordLoop == pc = "api" /\ kwIdx <= QueryLimit /\ kwIdx <= Len(lgbtq_keywords)

\* the queries issued are those of the first five keywords, in order, one each
OneQueryPerKeyword ==
    /\ InKeywordLoop =>
          /\ queried' = Append(queried, lgbtq_keywords[Len(queried) + 1])
          /\ pc' = "api"
          /\ outcome' = "running"
    /\ (pc = "api" /\ pc' = "dedup") => queried = SubSeq(lgbtq_keywords, 1, QueryLimit)

----------------------------------------------------------------------------
(* Upstreams that never answer *)

\* the outbound fetches that are issued with a timeout: the Advocate fetch (line
\* 151), the first Google News fetch (line 117) and the thumbnail page fetch (line
\* 286).  feedparser.parse(url) of a standard source (line 162) and of the Google
\* News fallback (line 126), and the keyword query (line 438), have none.
HasTimeout(fetch) == fetch \in {"advocate", "google", "thumbnail"}

\* a fetch that ran into its timeout raises, which the fetcher answers like any
\* failed fetch
TimedOut == [http |-> "error", parsed |-> BozoEmpty, fallback |-> BozoEmpty]

\* the upstream of the current source never answers the feed fetch: with a
\* timeout the source ends as failed, without one the call waits for ever
RssNeverAnswered ==
    /\ pc = "rss"
    /\ version = "250720"
    /\ idx <= Len(rss_feeds)
    /\ IF HasTimeout(Kind(rss_feeds[idx]))
       THEN /\ RssIteration(rss_feeds[idx], TimedOut, now)
            /\ UNCHANGED <<version, pc, hours_back, exclude_keywords, now, cutoff_time,
                         kwIdx, queried, news_articles, all_articles, unique_articles,
                         filtered_articles, outcome, server_zone, deduped_again,
                         feed_health, route_response, item, page_requested, feed_name,
                         test_fetches, api_answer, parsed_date, stamp, normalized,
                         shared, collect_calls, health_run>>
       ELSE /\ pc' = "blocked"
            /\ UNCHANGED <<version, hours_back, exclude_keywords, now, cutoff_time, idx,
                         feed, articles, failed_feeds, successful_feeds, kwIdx, queried,
                         news_articles, all_articles, unique_articles,
                         filtered_articles, outcome, received, server_zone,
                         deduped_again, feed_health, route_response, item,
                         page_requested, feed_name, test_fetches, api_answer,
                         parsed_date, stamp, normalized, shared, collect_calls,
                         health_run>>

\* Google News answered the first fetch with an unparsable empty feed and never
\* answers the fetch of the original URL, line 126
FallbackNeverAnswered ==
    /\ pc = "rss"
    /\ version = "250720"
    /\ idx <= Len(rss_feeds)
    /\ Kind(rss_feeds[idx]) = "google"
    /\ IF HasTimeout("google_fallback")
       THEN /\ RssIteration(rss_feeds[idx], TimedOut, now)
            /\ UNCHANGED <<version, pc, hours_back, exclude_keywords, now, cutoff_time,
                         kwIdx, queried, news_articles, all_articles, unique_articles,
                         filtered_articles, outcome, server_zone, deduped_again,
                         feed_health, route_response, item, page_requested, feed_name,
                         test_fetches, api_answer, parsed_date, stamp, normalized,
                         shared, collect_calls, health_run>>
       ELSE /\ pc' = "blocked"
            /\ UNCHANGED <<version, hours_back, exclude_keywords, now, cutoff_time, idx,
                         feed, articles, failed_feeds, successful_feeds, kwIdx, queried,
                         news_articles, all_articles, unique_articles,
                         filtered_articles, outcome, received, server_zone,
                         deduped_again, feed_health, route_response, item,
                         page_requested, feed_name, test_fetches, api_answer,
                         parsed_date, stamp, normalized, shared, collect_calls,
                         health_run>>

\* the API never answers the query of the current keyword
ApiNeverAnswered ==
    /\ pc = "api"
    /\ kwIdx <= QueryLimit
    /\ kwIdx <= Len(lgbtq_keywords)
    /\ IF HasTimeout("api")
       THEN /\ ApiIteration(lgbtq_keywords[kwIdx], [k |-> "http_error", items |-> <<>>])
            /\ UNCHANGED <<version, pc, hours_back, exclude_keywords, now, cutoff_time,
                         idx, feed, articles, failed_feeds, successful_feeds,
                         all_articles, unique_articles, filtered_articles, outcome,
                         server_zone, deduped_again, feed_health, route_response, item,
                         page_requested, feed_name, test_fetches, parsed_date, stamp,
                         normalized, shared, collect_calls, health_run>>
       ELSE /\ pc' = "blocked"
            /\ UNCHANGED <<version, hours_back, exclude_keywords, now, cutoff_time, idx,
                         feed, articles, failed_feeds, successful_feeds, kwIdx, queried,
                         news_articles, all_articles, unique_articles,
                         filtered_articles, outcome, received, server_zone,
                         deduped_again, feed_health, route_response, item,
                         page_requested, feed_name, test_fetches, api_answer,
                         parsed_date, stamp, normalized, shared, collect_calls,
                         health_run>>

NextLive ==
    \/ Next
    \/ RssNeverAnswered
    \/ FallbackNeverAnswered
    \/ ApiNeverAnswered

\* the call is scheduled as long as it can take a step
SpecLive == Init /\ [][NextLive]_vars /\ WF_vars(NextLive)

\* C23: every outbound fetch of a collection carries a timeout, so that a call of
\* collect_all_sources never waits without limit on an upstream that does not
\* answer, and every call that was started eventually returns.
C23_EventuallyReturns ==
    /\ [](pc # "blocked")
    /\ (pc = "rss") ~> (pc = "done")

----------------------------------------------------------------------------
(* _parse_date on its own *)

\* the shapes of a structured date field: absent, a valid calendar tuple, a
\* tuple datetime() rejects
StructShapes ==
    {AbsentStruct, [k |-> "bad", wall |-> 0]}
    \cup {[k |-> "ok", wall |-> w] : w \in {Now0 - 1, Now0}}

\* the shapes of a textual date field: absent, text that is no date, a date
\* without zone, with UTC, with a zone of the tzinfos table, with another zone
TextShapes ==
    {AbsentText, [k |-> "garbage", wall |-> 0, zone |-> ""]}
    \cup {[k |-> "ok", wall |-> Now0 - 2, zone |-> z] :
             z \in {"", "UTC", "EDT", "PST", "CEST"}}

DateShapes ==
    {[BlankEntry EXCEPT !.published_parsed = pp, !.updated_parsed = up,
                        !.published = pt, !.updated = ut] :
        pp \in StructShapes, up \in StructShapes, pt \in TextShapes, ut \in TextShapes}

\* _parse_date(entry) is called, in either collector, on a host in either zone
CallParseDate ==
    /\ pc = "idle"
    /\ \E e \in DateShapes, v \in {"250720", "250718"}, z \in {"UTC", "EDT"} :
          /\ item' = e
          /\ version' = v
          /\ server_zone' = z
          /\ parsed_date' = IF v = "250720"
                            THEN [raised |-> FALSE, date |-> ParseDate(e)]
                            ELSE LegacyParseDate(e, z)
    /\ pc' = "parsed"
    /\ UNCHANGED <<hours_back, exclude_keywords, now, cutoff_time, idx, feed, articles,
                 failed_feeds, successful_feeds, kwIdx, queried, news_articles,
                 all_articles, unique_articles, filtered_articles, outcome, received,
                 deduped_again, feed_health, route_response, page_requested, feed_name,
                 test_fetches, api_answer, stamp, normalized, shared, collect_calls,
                 health_run>>

NextDate == CallParseDate

SpecDate == Init /\ [][NextDate]_vars

\* the UTC offset a zone name denotes; a text without zone is taken as UTC
ZoneOffset(zone) ==
    CASE zone = "EDT" -> -4
      [] zone = "PST" -> -8
      [] zone = "CEST" -> 2
      [] OTHER -> 0

\* the field the priority order selects: the first structured field that
\* converts, else the first textual field that parses, else none
Selected(e) ==
    IF e.published_parsed.k = "ok" THEN "published_parsed"
    ELSE IF e.updated_parsed.k = "ok" THEN "updated_parsed"
    ELSE IF e.published.k = "ok" THEN "published"
    ELSE IF e.updated.k = "ok" THEN "updated"
    ELSE "none"

\* the instant the selected field denotes
SelectedInstant(e) ==
    CASE Selected(e) = "published_parsed" -> e.published_parsed.wall
      [] Selected(e) = "updated_parsed" -> e.updated_parsed.wall
      [] Selected(e) = "published" -> e.published.wall - ZoneOffset(e.published.zone)
      [] Selected(e) = "updated" -> e.updated.wall - ZoneOffset(e.updated.zone)

\* C24: _parse_date never raises and returns the structured time of the entry
\* read as UTC, else the instant its textual date denotes with the offset of the
\* zone it names (UTC when it names none), else none; a field that does not
\* parse is passed over for the next one.
C24_ParseDatePriority ==
    pc = "parsed" =>
        /\ ~parsed_date.raised
        /\ parsed_date.date.none <=> Selected(item) = "none"
        /\ ~parsed_date.date.none =>
              /\ parsed_date.date.aware
              /\ Instant(DateOf(parsed_date.date)) = SelectedInstant(item)

----------------------------------------------------------------------------
(* normalize_datetime on its own *)

\* the timestamps tried: unqualified ones and ones with a UTC offset
Timestamps ==
    {Naive(w) : w \in (Now0 - MaxOffset)..(Now0 + MaxOffset)}
    \cup {Aware(w, o) : w \in (Now0 - MaxOffset)..(Now0 + MaxOffset),
                        o \in (-MaxOffset)..MaxOffset}

\* normalize_datetime(dt) is called, as the sort key of line 611 does
CallNormalize ==
    /\ pc = "idle"
    /\ \E dt \in Timestamps :
          /\ stamp' = dt
          /\ normalized' = normalize_datetime(dt)
    /\ pc' = "normalized"
    /\ UNCHANGED <<version, hours_back, exclude_keywords, now, cutoff_time, idx, feed,
                 articles, failed_feeds, successful_feeds, kwIdx, queried,
                 news_articles, all_articles, unique_articles, filtered_articles,
                 outcome, received, server_zone, deduped_again, feed_health,
                 route_response, item, page_requested, feed_name, test_fetches,
                 api_answer, parsed_date, shared, collect_calls, health_run>>

\* normalize_datetime is applied to its own result
NormalizeAgain ==
    /\ pc = "normalized"
    /\ normalized' = normalize_datetime(normalized)
    /\ pc' = "renormalized"
    /\ UNCHANGED <<version, hours_back, exclude_keywords, now, cutoff_time, idx, feed,
                 articles, failed_feeds, successful_feeds, kwIdx, queried,
                 news_articles, all_articles, unique_articles, filtered_articles,
                 outcome, received, server_zone, deduped_again, feed_health,
                 route_response, item, page_requested, feed_name, test_fetches,
                 api_answer, parsed_date, stamp, shared, collect_calls, health_run>>

NextNormalize == CallNormalize \/ NormalizeAgain

SpecNormalize == Init /\ [][NextNormalize]_vars

\* the instant a timestamp denotes when an unqualified one is read as UTC
DenotedInstant(dt) == IF dt.aware THEN dt.wall - dt.off ELSE dt.wall

\* C25: normalize_datetime returns a UTC timestamp that denotes the instant of
\* its input, an unqualified input being read as UTC, and applying it to its own
\* result changes nothing.
C25_NormalizeIdempotent ==
    /\ [](pc \in {"normalized", "renormalized"} =>
            /\ normalized.aware
            /\ normalized.off = 0
            /\ normalized.wall = DenotedInstant(stamp))
    /\ [][pc = "normalized" => normalized' = normalized]_vars

\* C25 witness: a timestamp five hours ahead of UTC was normalised, which moved
\* its wall time, and normalised again
C25_Witness ==
    /\ pc = "renormalized"
    /\ stamp = Aware(Now0, MaxOffset)
    /\ normalized = Aware(Now0 - MaxOffset, 0)

----------------------------------------------------------------------------
(* Deduplication before filtering *)

\* a record in whose title, one space and body a term of the effective exclusion
\* list occurs, case ignored
ExcludedRecord(a) ==
    TermOccurs(IF EmptyOrUnset(exclude_keywords) THEN default_excluded_keywords
               ELSE exclude_keywords.kws,
               Str(a.title) \o <<" ">> \o Str(a.content))

\* C26: every record of the list collect_all_sources returned is the first record
\* of its fingerprint in the merged sequence, and when that first record is an
\* excluded one the list holds no record of the fingerprint at all.
C26_FirstSeenOnly ==
    (pc = "done" /\ outcome = "returned") =>
        /\ \A k \in 1..Len(filtered_articles) :
              \E i \in FirstOccurrences(all_articles) :
                  filtered_articles[k] = all_articles[i]
        /\ \A i \in FirstOccurrences(all_articles) :
              ExcludedRecord(all_articles[i]) =>
                  \A k \in 1..Len(filtered_articles) :
                      filtered_articles[k].hash_id # all_articles[i].hash_id

\* C26 witness: under the default exclusion list the first record of a
\* fingerprint was excluded, a later record with the same title and url and
\* another body would have passed, and the returned list has neither
C26_Witness ==
    /\ pc = "done"
    /\ outcome = "returned"
    /\ exclude_keywords = NoExclude
    /\ \E i \in FirstOccurrences(all_articles) :
          /\ ExcludedRecord(all_articles[i])
          /\ \E j \in (i + 1)..Len(all_articles) :
                /\ all_articles[j].title = all_articles[i].title
                /\ all_articles[j].url = all_articles[i].url
                /\ all_articles[j].content # all_articles[i].content
                /\ ~ExcludedRecord(all_articles[j])
          /\ \A k \in 1..Len(filtered_articles) :
                /\ filtered_articles[k].title # all_articles[i].title
                /\ filtered_articles[k].url # all_articles[i].url

----------------------------------------------------------------------------
(* Request threads on the one module-level collector *)

\* the headers _handle_google_news_feed sends with its request, lines 111-114
GoogleHeaders == "Mozilla/5.0 (compatible; NewsBot/1.0; +http://www.example.com/bot)"

\* a fetch that writes its request headers into the session
SessionHeadersUpdated(state, source_name) ==
    IF Kind(source_name) = "google" THEN [state EXCEPT !.headers = GoogleHeaders]
    ELSE state

\* the collector's attributes after a feed fetch: the Google News headers are an
\* argument of session.get (line 117), the session's own headers stay as set
SessionAfterFetch(state, source_name) == state

\* what a source may answer to one of the concurrent calls
SharedUpstreams(n) ==
    {TimedOut}
    \cup {[http |-> "ok", parsed |-> Feed(<<e>>, FALSE), fallback |-> BozoEmpty] :
             e \in IF n >= 1 THEN {E_Struct, E_Text} ELSE {}}

\* what the API may answer to one of the concurrent calls
SharedResponses(n) ==
    {[k |-> "http_error", items |-> <<>>]}
    \cup {[k |-> "ok", items |-> <<a>>] : a \in IF n >= 1 THEN {A_Dup} ELSE {}}

\* the cutoff and the clock of the concurrent calls
SharedCutoff == Aware(Now0 - MaxHoursBack, 0)

\* thread c enters collect_all_sources(hours_back, exclude_keywords)
CallCollect(c) ==
    /\ collect_calls[c].pc = "idle"
    /\ \E ex \in {NoExclude, Exclude(<<T_Gay>>)} :
          collect_calls' = [collect_calls EXCEPT ![c].pc = "rss", ![c].exclude = ex]
    /\ UNCHANGED <<shared, health_run>>

\* thread c runs the body of the source loop for its next source
CallRssStep(c) ==
    LET call == collect_calls[c]
    IN /\ call.pc = "rss"
       /\ call.idx <= Len(shared.rss_feeds)
       /\ \E up \in SharedUpstreams(MaxShared - call.received) :
             LET source_name == shared.rss_feeds[call.idx]
                 f == _fetch_and_fix_feed(source_name, up)
             IN /\ collect_calls' =
                      [collect_calls EXCEPT
                          ![c].idx = call.idx + 1,
                          ![c].feeds = Append(call.feeds, up),
                          ![c].received = call.received + Len(f.entries),
                          ![c].articles =
                              call.articles \o
                              ProcessEntries(f.entries, source_name, SharedCutoff, Now0)]
                /\ shared' = SessionAfterFetch(shared, source_name)
       /\ UNCHANGED health_run

\* thread c leaves the source loop and enters collect_from_newsapi
CallRssReturn(c) ==
    /\ collect_calls[c].pc = "rss"
    /\ collect_calls[c].idx > Len(shared.rss_feeds)
    /\ collect_calls' = [collect_calls EXCEPT ![c].pc = "api"]
    /\ UNCHANGED <<shared, health_run>>

\* thread c runs the body of the keyword loop for its next keyword
CallApiStep(c) ==
    LET call == collect_calls[c]
    IN /\ call.pc = "api"
       /\ call.kwIdx <= QueryLimit
       /\ call.kwIdx <= Len(shared.lgbtq_keywords)
       /\ \E response \in SharedResponses(MaxShared - call.received) :
             collect_calls' =
                 [collect_calls EXCEPT
                     ![c].kwIdx = call.kwIdx + 1,
                     ![c].answers = Append(call.answers, response),
                     ![c].received = call.received + Len(response.items),
                     ![c].news_articles =
                         IF response.k = "ok"
                         THEN call.news_articles \o ProcessApiItems(response.items)
                         ELSE call.news_articles]
       /\ UNCHANGED <<shared, health_run>>

\* lines 200-201 on the shared collector: the default list is read from it
SharedExclude(ex) ==
    IF ~ex.given \/ ex.kws = <<>> THEN Exclude(shared.default_excluded_keywords) ELSE ex

\* thread c merges, deduplicates, filters and returns, lines 485-495
CallFinish(c) ==
    LET call == collect_calls[c]
        r == filter_articles_by_keywords(
                 _deduplicate_articles(call.articles \o call.news_articles),
                 SharedExclude(call.exclude))
    IN /\ call.pc = "api"
       /\ (call.kwIdx > QueryLimit \/ call.kwIdx > Len(shared.lgbtq_keywords))
       /\ collect_calls' =
             [collect_calls EXCEPT
                 ![c].pc = "done",
                 ![c].result = IF r.raised THEN <<>> ELSE r.list,
                 ![c].outcome = IF r.raised THEN "raised" ELSE "returned"]
       /\ UNCHANGED <<shared, health_run>>

\* a third thread enters validate_feed_health
HealthStart ==
    /\ health_run.pc = "idle"
    /\ health_run' = [health_run EXCEPT !.pc = "health"]
    /\ UNCHANGED <<shared, collect_calls>>

\* the health check fetches its next source and notes the verdict
HealthFetch ==
    /\ health_run.pc = "health"
    /\ health_run.idx <= Len(shared.rss_feeds)
    /\ \E up \in SharedUpstreams(MaxShared) :
          LET source_name == shared.rss_feeds[health_run.idx]
          IN /\ health_run' =
                   [health_run EXCEPT
                       !.idx = health_run.idx + 1,
                       !.health = SetItem(health_run.health, source_name,
                                          HealthVerdict(_fetch_and_fix_feed(source_name, up)))]
             /\ shared' = SessionAfterFetch(shared, source_name)
    /\ UNCHANGED collect_calls

NextShared ==
    \/ \E c \in Callers :
          /\ \/ CallCollect(c)
             \/ CallRssStep(c)
             \/ CallRssReturn(c)
             \/ CallApiStep(c)
             \/ CallFinish(c)
          /\ UNCHANGED <<version, pc, hours_back, exclude_keywords, now, cutoff_time, idx,
                       feed, articles, failed_feeds, successful_feeds, kwIdx, queried,
                       news_articles, all_articles, unique_articles, filtered_articles,
                       outcome, received, server_zone, deduped_again, feed_health,
                       route_response, item, page_requested, feed_name, test_fetches,
                       api_answer, parsed_date, stamp, normalized>>
    \/ /\ (HealthStart \/ HealthFetch)
       /\ UNCHANGED <<version, pc, hours_back, exclude_keywords, now, cutoff_time, idx,
                    feed, articles, failed_feeds, successful_feeds, kwIdx, queried,
                    news_articles, all_articles, unique_articles, filtered_articles,
                    outcome, received, server_zone, deduped_again, feed_health,
                    route_response, item, page_requested, feed_name, test_fetches,
                    api_answer, parsed_date, stamp, normalized>>

SpecShared == Init /\ [][NextShared]_vars

RECURSIVE RssAlone(_, _)
\* the records collect_from_rss_with_resilience builds, on its own, from the
\* answers feeds[i..]
RssAlone(feeds, i) ==
    IF i > Len(feeds) THEN <<>>
    ELSE ProcessEntries(_fetch_and_fix_feed(rss_feeds[i], feeds[i]).entries,
                        rss_feeds[i], SharedCutoff, Now0)
         \o RssAlone(feeds, i + 1)

RECURSIVE ApiAlone(_, _)
\* the records collect_from_newsapi builds, on its own, from answers[i..]
ApiAlone(answers, i) ==
    IF i > Len(answers) THEN <<>>
    ELSE (IF answers[i].k = "ok" THEN ProcessApiItems(answers[i].items) ELSE <<>>)
         \o ApiAlone(answers, i + 1)

\* what collect_all_sources gives, on its own, for the same answers and argument
CollectAlone(feeds, answers, ex) ==
    filter_articles_by_keywords(
        _deduplicate_articles(RssAlone(feeds, 1) \o ApiAlone(answers, 1)), ex)

\* a call that ended as it ends when run alone
AsAlone(call) ==
    LET alone == CollectAlone(call.feeds, call.answers, call.exclude)
    IN /\ Len(call.feeds) = Len(rss_feeds)
       /\ Len(call.answers) = QueryLimit
       /\ (call.outcome = "raised") <=> alone.raised
       /\ call.outcome = "returned" => call.result = alone.list

\* C27: no step of a collection, of a health check or of the filter changes the
\* collector's source map, keyword list, default exclusion list or session
\* headers; each of two interleaved collect_all_sources calls ends as it ends
\* when run alone on the answers it received; and a step of the health check
\* leaves the locals and results of the collections untouched.
C27_SharedStateReadOnly ==
    /\ [][shared' = shared]_vars
    /\ [](\A c \in Callers : collect_calls[c].pc = "done" => AsAlone(collect_calls[c]))
    /\ [][health_run' # health_run => collect_calls' = collect_calls]_vars

\* C27 witness: one call has returned a record while the other call, which
\* received a different answer, and the health check are both in mid-loop
C27_Witness ==
    /\ collect_calls[1].pc = "done"
    /\ collect_calls[1].outcome = "returned"
    /\ collect_calls[1].result # <<>>
    /\ collect_calls[2].pc = "rss"
    /\ collect_calls[2].idx = 3
    /\ collect_calls[2].articles # <<>>
    /\ collect_calls[2].feeds # SubSeq(collect_calls[1].feeds, 1, 2)
    /\ health_run.pc = "health"
    /\ health_run.idx = 2
    /\ shared = Constructed

====
